---- MODULE Spec2Model ----
(***************************************************************************)
(* Work-package split / join tools of st_tools.                            *)
(*                                                                         *)
(*   image splitter  ai_image_viewer/.../collab/js/split-work.js           *)
(*   document splitter  ai_docu/collab/js/split-work.js                    *)
(*   image joiner    unnamed/part_002 (join-work.js, from line 63)         *)
(*   document joiner ai_docu/collab/js/join-work.js                        *)
(*                                                                         *)
(* File names are sequences of UTF-16 code units, so that the default      *)
(* Array.prototype.sort order, the glob patterns and the extension tests   *)
(* are computed as the code computes them.                                 *)
(***************************************************************************)
EXTENDS Integers, Sequences, FiniteSets, TLC

VARIABLES
    tool,           \* "image" | "docu": which splitter runs
    argv,           \* the --num-splits argument, a sequence of characters
    sourceExists,   \* whether the --source path exists
    sourceDir,      \* names of the regular files directly under --source
    pc,             \* position of the splitter process
    numSplits,      \* options.numSplits / this.numSplits (a JS number)
    imageFiles,     \* result of getImageFiles / getDocumentFiles
    chunks,         \* result of splitImages / splitDocuments
    warned,         \* the "Created X packages instead of Y" line was printed
    outputExists,   \* the output folder exists
    outDir,         \* output folder: package id -> [images, manifest]
    createdPackages,\* createdPackages of split()
    exitCode,       \* the status the process ends with (0 unless process.exit(1))
    prevRun,        \* the assignment of an earlier completed run
    \* ---- image joiner (join-work.js) ----
    joinInputs,     \* the <packages...> arguments: what each path is on disk
    jpc,            \* position of the joiner process
    di,             \* index of the input-path loop of detectAndExtractArchives
    archiveFiles,   \* archiveFiles of detectAndExtractArchives
    extractedPaths, \* extractedPaths, then this.packagePaths
    ei,             \* index of the extraction loop
    tempDir,        \* this.tempDir and what has been extracted into it
    validPackages,  \* result of validatePackages
    allImages,      \* result of collectImages
    joinOut,        \* the output directory of the joiner
    jthrown,        \* an Error is propagating out of join()
    joinExit,       \* the status the joiner process ends with
    mergedMetadata, \* mergedMetadata of join()
    force,          \* options.force of the joiner
    \* ---- mergeMetadata of the image joiner ----
    metadataFiles,  \* the metadata documents, in the order of findMetadataFiles
    mpc,            \* position in mergeMetadata
    mi,             \* index of the loop over metadataFiles
    merged,         \* the merged object
    imageCount,     \* imageCount
    modelsUsed,     \* modelsUsed, in insertion order
    prevMerged,     \* the result of an earlier call of mergeMetadata
    \* ---- document joiner (ai_docu join-work.js) ----
    inputFolder,    \* directory name -> pattern position -> metadata file
    dpc,            \* position of the document joiner
    packageDirs,    \* result of findPackageDirectories
    dpi,            \* index of the loop over packageDirs
    allMetadata,    \* allMetadata of join()
    mergedData,     \* the `metadata` of the result of mergeMetadata
    docExit,        \* the status the document joiner ends with
    \* ---- createWorkPackage, statement by statement ----
    projectRoot,    \* what the project root holds beside the HTML files
    step,           \* position inside createWorkPackage
    copyIndex,      \* index of the content copy loop
    packageTree,    \* chunkId -> what the package directory holds so far
    \* ---- the CLI action of the document joiner ----
    docArchives,    \* the .zip files of the input folder, by base name
    cleanExtracted, \* options.cleanExtracted
    docExtracted,   \* extractedPaths of extractCompressedPackages
    preExisting     \* the directories of the input folder before the run

splitVars == <<tool, argv, sourceExists, sourceDir, pc, numSplits, imageFiles,
               chunks, warned, outputExists, outDir, createdPackages, exitCode,
               prevRun>>

joinVars == <<joinInputs, jpc, di, archiveFiles, extractedPaths, ei, tempDir,
              validPackages, allImages, mergedMetadata, joinOut, jthrown, joinExit>>

mergeVars == <<metadataFiles, mpc, mi, merged, imageCount, modelsUsed, prevMerged>>

docVars == <<inputFolder, dpc, packageDirs, dpi, allMetadata, mergedData, docExit>>

mainVars == <<force>>

createVars == <<projectRoot, step, copyIndex, packageTree>>

cleanVars == <<docArchives, cleanExtracted, docExtracted, preExisting>>

vars == <<splitVars, joinVars, mainVars, mergeVars, docVars, createVars, cleanVars>>

\* what the steps of one tool leave alone
nonSplitVars == <<joinVars, mainVars, mergeVars, docVars, createVars, cleanVars>>
nonJoinVars == <<splitVars, mainVars, mergeVars, docVars, createVars, cleanVars>>
nonMergeVars == <<splitVars, joinVars, mainVars, docVars, createVars, cleanVars>>
nonDocVars == <<splitVars, joinVars, mainVars, mergeVars, createVars, cleanVars>>
nonCreateVars == <<joinVars, mainVars, mergeVars, docVars, cleanVars>>
nonCliVars == <<splitVars, joinVars, mainVars, mergeVars, createVars>>

----------------------------------------------------------------------------
(* Bounds of the model *)

MaxFiles == 5
MaxInputs == 2
MaxDocs == 2
MaxPackages == 2
MaxPreExisting == 1

----------------------------------------------------------------------------
(* JS numbers: an integer or NaN *)

Num(v) == [nan |-> FALSE, val |-> v]
NaN == [nan |-> TRUE, val |-> 0]

\* a < b of JS: false as soon as one side is NaN
JsLess(a, b) == ~a.nan /\ ~b.nan /\ a.val < b.val

\* a !== b of JS on numbers: NaN differs from everything
JsNotEqual(a, b) == a.nan \/ b.nan \/ a.val # b.val

Min(a, b) == IF a <= b THEN a ELSE b

----------------------------------------------------------------------------
(* parseInt, the argument parser of --num-splits *)

DigitVal == ("0" :> 0) @@ ("1" :> 1) @@ ("2" :> 2) @@ ("3" :> 3) @@ ("4" :> 4)
            @@ ("5" :> 5) @@ ("6" :> 6) @@ ("7" :> 7) @@ ("8" :> 8) @@ ("9" :> 9)

IsDigit(c) == c \in DOMAIN DigitVal

RECURSIVE StripLeadingWs(_)
StripLeadingWs(s) ==
    IF s # <<>> /\ Head(s) = " " THEN StripLeadingWs(Tail(s)) ELSE s

RECURSIVE DigitPrefix(_)
DigitPrefix(s) ==
    IF s = <<>> \/ ~IsDigit(Head(s)) THEN <<>>
    ELSE <<Head(s)>> \o DigitPrefix(Tail(s))

RECURSIVE DigitsValue(_)
DigitsValue(d) ==
    IF d = <<>> THEN 0
    ELSE 10 * DigitsValue(SubSeq(d, 1, Len(d) - 1)) + DigitVal[d[Len(d)]]

\* parseInt(value, undefined): optional sign, then the longest decimal prefix
ParseInt(s) ==
    LET t == StripLeadingWs(s)
        signed == t # <<>> /\ Head(t) \in {"-", "+"}
        neg == t # <<>> /\ Head(t) = "-"
        d == DigitPrefix(IF signed THEN Tail(t) ELSE t)
    IN  IF d = <<>> THEN NaN
        ELSE Num(IF neg THEN 0 - DigitsValue(d) ELSE DigitsValue(d))

\* the validated range of options.numSplits
MinSplits == 1
MaxSplits == 100

\* The --num-splits arguments tried
ArgStrings ==
    { <<"0">>, <<"-", "1">>, <<"1">>, <<"2">>, <<"3">>, <<"4">>, <<"5">>,
      <<"6">>, <<"1", "0", "0">>, <<"1", "0", "1">>,
      <<"a", "b", "c">>, <<"2", ".", "5">>, <<"3", "x">> }

----------------------------------------------------------------------------
(* File names *)

Dot == 46

\* String.prototype.toUpperCase / toLowerCase on the ASCII letters
UpperUnit(u) == IF u >= 97 /\ u <= 122 THEN u - 32 ELSE u
LowerUnit(u) == IF u >= 65 /\ u <= 90 THEN u + 32 ELSE u
ToUpperCase(s) == [i \in 1..Len(s) |-> UpperUnit(s[i])]
ToLowerCase(s) == [i \in 1..Len(s) |-> LowerUnit(s[i])]

EndsWith(s, suffix) ==
    /\ Len(s) >= Len(suffix)
    /\ SubSeq(s, Len(s) - Len(suffix) + 1, Len(s)) = suffix

\* path.extname: from the last "." on, "" when there is none or it comes first
ExtName(name) ==
    LET dots == {i \in 1..Len(name) : name[i] = Dot}
        last == CHOOSE i \in dots : \A j \in dots : j <= i
    IN  IF dots = {} \/ last = 1 THEN <<>> ELSE SubSeq(name, last, Len(name))

\* ".jpg", ".jpeg", ".png", ".gif", ".webp", ".bmp"
ImageExtensions ==
    << <<46, 106, 112, 103>>, <<46, 106, 112, 101, 103>>, <<46, 112, 110, 103>>,
       <<46, 103, 105, 102>>, <<46, 119, 101, 98, 112>>, <<46, 98, 109, 112>> >>

\* ".txt", ".pdf", ".docx", ".rtf", ".md"
DocumentExtensions ==
    { <<46, 116, 120, 116>>, <<46, 112, 100, 102>>, <<46, 100, 111, 99, 120>>,
      <<46, 114, 116, 102>>, <<46, 109, 100>> }

\* "B.JPG" "a.jpg" "b.jpg" "c.png" "d.gif" "e.Jpg" "f.txt"
ImageUniverse ==
    { <<66, 46, 74, 80, 71>>, <<97, 46, 106, 112, 103>>, <<98, 46, 106, 112, 103>>,
      <<99, 46, 112, 110, 103>>, <<100, 46, 103, 105, 102>>,
      <<101, 46, 74, 112, 103>>, <<102, 46, 116, 120, 116>> }

\* "B.MD" "a.md" "b.txt" "c.pdf" "d.Txt" "e.jpg" "f"
DocumentUniverse ==
    { <<66, 46, 77, 68>>, <<97, 46, 109, 100>>, <<98, 46, 116, 120, 116>>,
      <<99, 46, 112, 100, 102>>, <<100, 46, 84, 120, 116>>,
      <<101, 46, 106, 112, 103>>, <<102>> }

Universe(t) == IF t = "image" THEN ImageUniverse ELSE DocumentUniverse

\* the directories the source may be: at most MaxFiles files
SourceDirs(t) == {S \in SUBSET Universe(t) : Cardinality(S) <= MaxFiles}

----------------------------------------------------------------------------
(* Sorting: Array.prototype.sort() without comparator orders strings by    *)
(* UTF-16 code units.                                                      *)

RECURSIVE LexLess(_, _)
LexLess(a, b) ==
    IF b = <<>> THEN FALSE
    ELSE IF a = <<>> THEN TRUE
    ELSE IF Head(a) # Head(b) THEN Head(a) < Head(b)
    ELSE LexLess(Tail(a), Tail(b))

RECURSIVE InsertSorted(_, _)
InsertSorted(x, s) ==
    IF s = <<>> THEN <<x>>
    ELSE IF LexLess(x, Head(s)) THEN <<x>> \o s
    ELSE <<Head(s)>> \o InsertSorted(x, Tail(s))

\* a sort that leaves the array as the enumeration gave it
JsSortSkipped(s) == s

RECURSIVE JsSort(_)
JsSort(s) == IF s = <<>> THEN <<>> ELSE InsertSorted(Head(s), JsSort(Tail(s)))

\* [...new Set(xs)]: the first occurrence of each element, in order
RECURSIVE Dedup(_)
Dedup(s) ==
    IF s = <<>> THEN <<>>
    ELSE LET init == Dedup(SubSeq(s, 1, Len(s) - 1))
             x == s[Len(s)]
         IN  IF \E i \in 1..Len(init) : init[i] = x THEN init ELSE Append(init, x)

RECURSIVE Filter(_, _)
Filter(s, keep) ==
    IF s = <<>> THEN <<>>
    ELSE (IF Head(s) \in keep THEN <<Head(s)>> ELSE <<>>) \o Filter(Tail(s), keep)

Range(s) == {s[i] : i \in 1..Len(s)}

\* every order in which a directory enumeration may return the set S
RECURSIVE Orders(_)
Orders(S) ==
    IF S = {} THEN {<<>>}
    ELSE UNION {{<<x>> \o p : p \in Orders(S \ {x})} : x \in S}

\* s lists the set S once each, in increasing code-unit order of the names
IsNameSorted(s, S) ==
    /\ Range(s) = S
    /\ Len(s) = Cardinality(S)
    /\ \A i, j \in 1..Len(s) : i < j => LexLess(s[i], s[j])

----------------------------------------------------------------------------
(* Directory enumeration *)

\* glob(path.join(sourceFolder, "*" + ext)): "*" matches no leading dot
GlobMatches(dir, ext) == {n \in dir : EndsWith(n, ext) /\ n[1] # Dot}

\* the patterns of getImageFiles: for each extension, ext then ext.toUpperCase()
GlobPatterns ==
    [i \in 1..(2 * Len(ImageExtensions)) |->
        IF i % 2 = 1 THEN ImageExtensions[(i + 1) \div 2]
        ELSE ToUpperCase(ImageExtensions[i \div 2])]

\* what each pattern of getImageFiles matches in directory dir
PatternMatches(dir) == [i \in 1..Len(GlobPatterns) |-> GlobMatches(dir, GlobPatterns[i])]

\* the files of dir some pattern matches
ImageMatches(dir) == UNION {PatternMatches(dir)[i] : i \in 1..Len(GlobPatterns)}

\* imageFiles after the pattern loop: the matches of pattern 1, then of pattern 2,
\* ..., each set in the order the file system gave it (its order within `order`)
RECURSIVE GlobAll(_, _, _)
GlobAll(matches, order, i) ==
    IF i > Len(matches) THEN <<>>
    ELSE Filter(order, matches[i]) \o GlobAll(matches, order, i + 1)

\* getImageFiles: [...new Set(imageFiles)].sort()
GetImageFilesResult(matches, order) == JsSort(Dedup(GlobAll(matches, order, 1)))

\* the files of dir that getDocumentFiles keeps: a supported lower-cased extension
DocumentMatches(dir) == {n \in dir : ToLowerCase(ExtName(n)) \in DocumentExtensions}

\* getDocumentFiles: the kept entries in readdir order, then sort()
GetDocumentFilesResult(matches, order) == JsSort(Filter(order, matches))

----------------------------------------------------------------------------
(* splitImages / splitDocuments *)

\* Array.prototype.slice(a, b) for 0 <= a, 0 <= b (0-based, end exclusive)
Slice(s, a, b) ==
    IF a >= Len(s) \/ b <= a THEN <<>> ELSE SubSeq(s, a + 1, Min(b, Len(s)))

\* Math.ceil(k / n) for n >= 1
CeilDiv(k, n) == (k + n - 1) \div n

\* Math.floor in place of Math.ceil
ChunkSizeFloor(k, n) == IF n.nan THEN NaN ELSE Num(k \div n.val)

\* Math.ceil(files.length / numSplits)
ChunkSize(k, n) == IF n.nan THEN NaN ELSE Num(CeilDiv(k, n.val))

\* the chunk loop without the `chunk.length > 0` test
RECURSIVE ChunkLoopKeepEmpty(_, _, _, _)
ChunkLoopKeepEmpty(files, n, chunkSize, i) ==
    IF ~JsLess(Num(i), n) THEN <<>>
    ELSE LET startIdx == i * chunkSize.val
             endIdx == Min((i + 1) * chunkSize.val, Len(files))
         IN  <<Slice(files, startIdx, endIdx)>>
             \o ChunkLoopKeepEmpty(files, n, chunkSize, i + 1)

RECURSIVE ChunkLoop(_, _, _, _)
ChunkLoop(files, n, chunkSize, i) ==
    IF ~JsLess(Num(i), n) THEN <<>>
    ELSE LET startIdx == i * chunkSize.val
             endIdx == Min((i + 1) * chunkSize.val, Len(files))
             chunk == Slice(files, startIdx, endIdx)
         IN  (IF Len(chunk) > 0 THEN <<chunk>> ELSE <<>>)
             \o ChunkLoop(files, n, chunkSize, i + 1)

SplitImages(files, n) == ChunkLoop(files, n, ChunkSize(Len(files), n), 0)

----------------------------------------------------------------------------
(* The splitter process *)

NoRun == [done |-> FALSE, numSplits |-> NaN, chunks |-> <<>>]

\* file content: the source files are copied unchanged
SourceBytes == 0

SplitInit ==
    /\ tool \in {"image", "docu"}
    /\ argv \in ArgStrings
    /\ sourceExists \in BOOLEAN
    /\ sourceDir \in (IF sourceExists THEN SourceDirs(tool) ELSE {{}})
    /\ pc = "cli"
    /\ numSplits = NaN
    /\ imageFiles = <<>>
    /\ chunks = <<>>
    /\ warned = FALSE
    /\ outputExists = FALSE
    /\ outDir = <<>>
    /\ createdPackages = <<>>
    /\ exitCode = 0
    /\ prevRun = NoRun

\* program.parse() and the validation that follows it
\* (image: top-level code before main; docu: the head of the action)
CliValidate ==
    /\ pc = "cli"
    /\ LET n == ParseInt(argv)
           bad == \/ JsLess(n, Num(MinSplits))
                  \/ JsLess(Num(MaxSplits), n)
                  \/ (tool = "image" /\ ~sourceExists)
       IN  /\ numSplits' = n
           /\ pc' = IF bad THEN "exit" ELSE "main"
           /\ exitCode' = IF bad THEN 1 ELSE exitCode
    /\ UNCHANGED <<tool, argv, sourceExists, sourceDir, imageFiles, chunks, warned,
                   outputExists, outDir, createdPackages, prevRun>>
    /\ UNCHANGED nonSplitVars

\* the emptiness test left out
NoFilesFoundIgnored(files) == FALSE

\* imageFiles.length === 0 / documentFiles.length === 0
NoFilesFound(files) == Len(files) = 0

\* split(): getImageFiles and the emptiness test
GetImageFiles ==
    /\ pc = "main"
    /\ tool = "image"
    /\ \E order \in Orders(ImageMatches(sourceDir)) :
         LET files == GetImageFilesResult(PatternMatches(sourceDir), order)
         IN  /\ imageFiles' = files
             /\ pc' = IF NoFilesFound(files) THEN "exit" ELSE "split"
             /\ exitCode' = IF NoFilesFound(files) THEN 1 ELSE exitCode
    /\ UNCHANGED <<tool, argv, sourceExists, sourceDir, numSplits, chunks, warned,
                   outputExists, outDir, createdPackages, prevRun>>
    /\ UNCHANGED nonSplitVars

\* split(): getDocumentFiles (readdir throws on a missing folder) and the emptiness test
GetDocumentFiles ==
    /\ pc = "main"
    /\ tool = "docu"
    /\ \E order \in Orders(DocumentMatches(sourceDir)) :
         LET files == GetDocumentFilesResult(DocumentMatches(sourceDir), order)
             failed == ~sourceExists \/ NoFilesFound(files)
         IN  /\ imageFiles' = IF sourceExists THEN files ELSE <<>>
             /\ pc' = IF failed THEN "exit" ELSE "split"
             /\ exitCode' = IF failed THEN 1 ELSE exitCode
    /\ UNCHANGED <<tool, argv, sourceExists, sourceDir, numSplits, chunks, warned,
                   outputExists, outDir, createdPackages, prevRun>>
    /\ UNCHANGED nonSplitVars

\* split(): chunking, the package-count warning, and creation of the output folder
SplitChunks ==
    /\ pc = "split"
    /\ LET cs == SplitImages(imageFiles, numSplits)
       IN  /\ chunks' = cs
           /\ warned' = JsNotEqual(Num(Len(cs)), numSplits)
    /\ outputExists' = TRUE
    /\ createdPackages' = <<>>
    /\ pc' = "create"
    /\ UNCHANGED <<tool, argv, sourceExists, sourceDir, numSplits, imageFiles, outDir,
                   exitCode, prevRun>>
    /\ UNCHANGED nonSplitVars

\* chunkId.toString(): the decimal digits of a positive integer, as code units
RECURSIVE NumberToString(_)
NumberToString(n) ==
    IF n < 10 THEN <<48 + n>> ELSE Append(NumberToString(n \div 10), 48 + (n % 10))

\* padStart without padding
PadStartNone(str, targetLength, unit) == str

\* String.prototype.padStart(targetLength, padString) with a one-unit padString
RECURSIVE PadStart(_, _, _)
PadStart(str, targetLength, unit) ==
    IF Len(str) >= targetLength THEN str
    ELSE PadStart(<<unit>> \o str, targetLength, unit)

\* "work-package-" and "docu-package-"
WorkPackagePrefix == <<119, 111, 114, 107, 45, 112, 97, 99, 107, 97, 103, 101, 45>>
DocuPrefix == <<100, 111, 99, 117, 45, 112, 97, 99, 107, 97, 103, 101, 45>>

\* packageName of createWorkPackage
PackageName(t, chunkId) ==
    (IF t = "image" THEN WorkPackagePrefix ELSE DocuPrefix)
    \o PadStart(NumberToString(chunkId), 3, 48)

\* the manifest createManifest writes for package chunkId
Manifest(chunkId, chunk, n) ==
    [id |-> chunkId, total_packages |-> n, image_count |-> Len(chunk), images |-> chunk]

\* the package directory after createWorkPackage(chunkId, chunk): the content
\* files are copied into the (possibly existing) content folder, then the manifest
\* is written
PackageAfter(dir, chunkId, chunk, n) ==
    LET old == IF chunkId \in DOMAIN dir THEN dir[chunkId].images ELSE <<>>
        new == [f \in Range(chunk) |-> SourceBytes]
    IN  [images |-> new @@ old, manifest |-> Manifest(chunkId, chunk, n)]

\* one iteration of the package loop of split(): createWorkPackage(i + 1, chunks[i])
CreateWorkPackage ==
    /\ pc = "create"
    /\ Len(createdPackages) < Len(chunks)
    /\ LET chunkId == Len(createdPackages) + 1
       IN  /\ outDir' = (chunkId :> PackageAfter(outDir, chunkId, chunks[chunkId], numSplits))
                        @@ outDir
           /\ createdPackages' = Append(createdPackages, chunkId)
    /\ UNCHANGED <<tool, argv, sourceExists, sourceDir, pc, numSplits, imageFiles,
                   chunks, warned, outputExists, exitCode, prevRun>>
    /\ UNCHANGED nonSplitVars

\* split() returns createdPackages; main prints the summary and the process ends
SplitReturn ==
    /\ pc = "create"
    /\ Len(createdPackages) = Len(chunks)
    /\ pc' = "done"
    /\ UNCHANGED <<tool, argv, sourceExists, sourceDir, numSplits, imageFiles, chunks,
                   warned, outputExists, outDir, createdPackages, exitCode, prevRun>>
    /\ UNCHANGED nonSplitVars

\* the splitter is run again on the unchanged source, with the same output
\* folder: the same command, or the command with --num-splits 1
Rerun ==
    /\ pc = "done"
    /\ jpc = "idle"
    /\ ~prevRun.done
    /\ argv' \in {argv, <<"1">>}
    /\ prevRun' = [done |-> TRUE, numSplits |-> numSplits, chunks |-> chunks]
    /\ pc' = "cli"
    /\ numSplits' = NaN
    /\ imageFiles' = <<>>
    /\ chunks' = <<>>
    /\ warned' = FALSE
    /\ createdPackages' = <<>>
    /\ exitCode' = 0
    /\ UNCHANGED <<tool, sourceExists, sourceDir, outputExists, outDir>>
    /\ UNCHANGED nonSplitVars

----------------------------------------------------------------------------
(* The image joiner: metadata documents and mergeMetadata *)

KeyA == "a.jpg"
KeyB == "b.jpg"

Entry(k, v) == [k |-> k, v |-> v]

\* the analysis record of an image, or JSON null
AiRecord(description, modelUsed) ==
    [null |-> FALSE, description |-> description, modelUsed |-> modelUsed]
AiNull == [null |-> TRUE, description |-> "", modelUsed |-> ""]

\* the `captions` and `aiData` objects of the metadata documents, as their entries
\* in key order; <<>> with has = FALSE is an absent key
\* a caption: a JSON string, or JSON null
Caption(text) == [null |-> FALSE, text |-> text]
CaptionNull == [null |-> TRUE, text |-> ""]

CaptionObjects ==
    {<<Entry(KeyA, Caption(""))>>, <<Entry(KeyA, CaptionNull)>>,
     <<Entry(KeyA, Caption("cat"))>>,
     <<Entry(KeyA, Caption("dog")), Entry(KeyB, Caption("bird"))>>}
AiDataObjects ==
    {<<Entry(KeyA, AiNull)>>, <<Entry(KeyA, AiRecord("cat", "M1"))>>,
     <<Entry(KeyA, AiNull), Entry(KeyB, AiRecord("bird", "M2"))>>,
     <<Entry(KeyA, AiRecord("dog", "M2")), Entry(KeyB, AiRecord("bird", "M2"))>>}

Unparsable ==
    [parses |-> FALSE, hasCaptions |-> FALSE, captions |-> <<>>,
     hasAiData |-> FALSE, aiData |-> <<>>, totalImages |-> 0]

\* a parsed document; totalImages is there when the document has analysed images
Document(c, a) ==
    [parses |-> TRUE, hasCaptions |-> c # <<>>, captions |-> c,
     hasAiData |-> a # <<>>, aiData |-> a,
     totalImages |-> IF c = <<>> /\ a = <<>> THEN 0 ELSE 2]

MetadataDocuments ==
    {Unparsable}
    \cup {Document(c, a) : c \in CaptionObjects \cup {<<>>}, a \in AiDataObjects \cup {<<>>}}

RECURSIVE DocumentSeqs(_)
DocumentSeqs(n) ==
    IF n = 0 THEN {<<>>}
    ELSE {Append(s, d) : s \in DocumentSeqs(n - 1), d \in MetadataDocuments}

\* a caption is truthy: a non-empty string
Truthy(caption) == ~caption.null /\ caption.text # ""

\* merged.captions[imgName] is truthy: the key is there with a truthy value
TruthyCaption(captions, k) == k \in DOMAIN captions /\ Truthy(captions[k])

\* merged.aiData[imgName] is truthy: the key is there and not null
TruthyAiData(aiData, k) == k \in DOMAIN aiData /\ ~aiData[k].null

\* the captions loop: if (!merged.captions[imgName]) merged.captions[imgName] = caption
RECURSIVE MergeCaptions(_, _)
MergeCaptions(captions, entries) ==
    IF entries = <<>> THEN captions
    ELSE MergeCaptions(IF TruthyCaption(captions, Head(entries).k) THEN captions
                       ELSE (Head(entries).k :> Head(entries).v) @@ captions,
                       Tail(entries))

\* modelsUsed.add
AddModel(models, m) ==
    IF \E i \in 1..Len(models) : models[i] = m THEN models ELSE Append(models, m)

\* the aiData loop; reading .modelUsed of null throws a TypeError, which ends the
\* processing of the document
RECURSIVE MergeAiData(_, _)
MergeAiData(st, entries) ==
    IF entries = <<>> THEN st
    ELSE LET e == Head(entries)
             aiData == IF TruthyAiData(st.aiData, e.k) THEN st.aiData
                       ELSE (e.k :> e.v) @@ st.aiData
         IN  IF e.v.null
             THEN [aiData |-> aiData, models |-> st.models, thrown |-> TRUE]
             ELSE MergeAiData([aiData |-> aiData,
                               models |-> IF e.v.modelUsed # ""
                                          THEN AddModel(st.models, e.v.modelUsed)
                                          ELSE st.models,
                               thrown |-> FALSE],
                              Tail(entries))

\* const merged = {...} of mergeMetadata
NoMerged ==
    [captions |-> <<>>, aiData |-> <<>>, totalImages |-> 0, models_used |-> <<>>,
     total_analyzed_images |-> 0, aiEnabled |-> TRUE]

\* the body of the loop over metadataFiles for one document: the try block and
\* its catch
MergeStep(st, data) ==
    LET captions == IF data.parses /\ data.hasCaptions
                    THEN MergeCaptions(st.merged.captions, data.captions)
                    ELSE st.merged.captions
        start == [aiData |-> st.merged.aiData, models |-> st.models, thrown |-> FALSE]
        ai == IF data.parses /\ data.hasAiData
              THEN MergeAiData(start, data.aiData) ELSE start
    IN  [merged |-> [st.merged EXCEPT !.captions = captions, !.aiData = ai.aiData],
         models |-> ai.models,
         count |-> IF data.parses /\ ~ai.thrown
                   THEN st.count + data.totalImages ELSE st.count]

\* the statements after the loop
Finished(st) ==
    [st.merged EXCEPT !.totalImages = st.count,
                      !.models_used = st.models,
                      !.total_analyzed_images = Cardinality(DOMAIN st.merged.aiData)]

RECURSIVE MergeLoop(_, _)
MergeLoop(st, files) ==
    IF files = <<>> THEN st ELSE MergeLoop(MergeStep(st, Head(files)), Tail(files))

\* mergeMetadata(metadataFiles)
MergeMetadataFiles(files) ==
    Finished(MergeLoop([merged |-> NoMerged, models |-> <<>>, count |-> 0], files))

----------------------------------------------------------------------------
(* The image joiner: what the input paths are on disk *)

\* "a.jpg" and "B.JPG", the content files of the packages given to the joiner
NameA == <<97, 46, 106, 112, 103>>
NameB == <<66, 46, 74, 80, 71>>

\* work-package-001, work-package-002
PkgIds == {1, 2}

\* a package directory: whether it has an images/ folder, and the bytes of its files
\* and the metadata documents exported into it, in the order glob lists them
NoContent == [hasImages |-> FALSE, images |-> <<>>, meta |-> <<>>]

\* the export of a package whose two images were analysed
AnalysisExport ==
    Document(<<Entry(KeyA, Caption("dog")), Entry(KeyB, Caption("bird"))>>,
             <<Entry(KeyA, AiRecord("dog", "M2")), Entry(KeyB, AiRecord("bird", "M2"))>>)

\* a package with images; the package with both images has been analysed
ContentOf(names, bytes) ==
    [hasImages |-> TRUE, images |-> [n \in names |-> bytes],
     meta |-> IF Cardinality(names) >= 2 THEN <<AnalysisExport>> ELSE <<>>]

\* a path: nothing, a plain file, a .tar.gz archive of package directories, or a
\* directory with work-package-* children (pkgs), .tar.gz files (inner) and
\* possibly an images/ folder of its own (own)
MissingPath ==
    [kind |-> "missing", corrupt |-> FALSE, pkgs |-> <<>>, own |-> NoContent, inner |-> <<>>]
PlainFile ==
    [kind |-> "file", corrupt |-> FALSE, pkgs |-> <<>>, own |-> NoContent, inner |-> <<>>]
Archive(pkgs, corrupt) ==
    [kind |-> "archive", corrupt |-> corrupt, pkgs |-> pkgs, own |-> NoContent, inner |-> <<>>]
Directory(own, pkgs, inner) ==
    [kind |-> "dir", corrupt |-> FALSE, pkgs |-> pkgs, own |-> own, inner |-> inner]

ImageSets == {{NameA}, {NameA, NameB}}

\* Every file carries bytes of its own: 100 * (input position) + 10 * (position of
\* the archive inside an input directory) + (package id)
Stamp(i, q, p) == 100 * i + 10 * q + p
OriginInput(bytes) == bytes \div 100

Contents(bytes) == {NoContent} \cup {ContentOf(S, bytes) : S \in ImageSets}

\* what package p of an input may be: the first package anything, a further
\* package a directory without images or a package with both images
PackageContents(bytes, p) ==
    IF p = 1 THEN Contents(bytes) ELSE {NoContent, ContentOf({NameA, NameB}, bytes)}

ArchivePaths(i, q) ==
    UNION {{Archive(p :> c, FALSE) : c \in PackageContents(Stamp(i, q, p), p)} : p \in PkgIds}
    \cup {Archive(<<>>, TRUE)}

\* the work-package-* children a directory may have, over the package ids D
RECURSIVE ChildrenOf(_, _)
ChildrenOf(i, D) ==
    IF D = {} THEN {<<>>}
    ELSE LET p == CHOOSE q \in D : TRUE
         IN  {(p :> c) @@ f : c \in PackageContents(Stamp(i, 0, p), p),
                                 f \in ChildrenOf(i, D \ {p})}

ChildMaps(i) == UNION {ChildrenOf(i, D) : D \in SUBSET PkgIds}

\* directories of package directories, as split leaves them
ContainerDirs(i) == {Directory(NoContent, pk, <<>>) : pk \in ChildMaps(i)}

\* a package directory itself
PackageDirs(i) == {Directory(ContentOf(S, Stamp(i, 0, 0)), <<>>, <<>>) : S \in ImageSets}

\* directories holding compressed packages
ArchiveDirs(i) ==
    {Directory(NoContent, <<>>, <<Archive(1 :> ContentOf({NameA}, Stamp(i, 1, 1)), FALSE)>>),
     Directory(NoContent, <<>>,
               <<Archive(1 :> ContentOf({NameA}, Stamp(i, 1, 1)), FALSE),
                 Archive(2 :> ContentOf({NameA, NameB}, Stamp(i, 2, 2)), FALSE)>>)}

InputPaths(i) ==
    {MissingPath, PlainFile} \cup ArchivePaths(i, 0) \cup ContainerDirs(i)
    \cup PackageDirs(i) \cup ArchiveDirs(i)

RECURSIVE InputSeqs(_)
InputSeqs(n) ==
    IF n = 0 THEN {<<>>}
    ELSE {Append(s, x) : s \in InputSeqs(n - 1), x \in InputPaths(n)}

NoTempDir == [exists |-> FALSE, pkgs |-> <<>>]
NoOutput == [exists |-> FALSE, images |-> <<>>, hasMetadata |-> FALSE, metadata |-> NoMerged]

\* the joiner before it is started
JoinIdle ==
    /\ joinInputs = <<>>
    /\ jpc = "idle"
    /\ di = 1
    /\ archiveFiles = <<>>
    /\ extractedPaths = <<>>
    /\ ei = 1
    /\ tempDir = NoTempDir
    /\ validPackages = <<>>
    /\ allImages = <<>>
    /\ joinOut = NoOutput
    /\ mergedMetadata = NoMerged
    /\ jthrown = FALSE
    /\ joinExit = 0
    /\ force = FALSE

----------------------------------------------------------------------------
(* The image joiner process *)

\* a package path: child `child` of input `root`, or of the temp dir (root 0)
PathOf(root, child) == [root |-> root, child |-> child]

\* an archive: input `root` itself (inner 0) or the inner-th .tar.gz inside it
ArchiveRef(root, inner) == [root |-> root, inner |-> inner]
ArchiveAt(ref) ==
    IF ref.inner = 0 THEN joinInputs[ref.root] ELSE joinInputs[ref.root].inner[ref.inner]

\* the directory a package path names, as it is on disk now
ContentAt(ref) ==
    IF ref.root = 0 THEN tempDir.pkgs[ref.child] ELSE joinInputs[ref.root].pkgs[ref.child]

\* one iteration of the first loop of detectAndExtractArchives. A directory is
\* searched for *.tar.gz and for work-package-* children; the third branch
\* ("regular directory") repeats the condition of the second and is never taken,
\* so the directory itself is never pushed.
DetectInput ==
    /\ jpc = "detect"
    /\ di <= Len(joinInputs)
    /\ LET inp == joinInputs[di]
       IN  \E gz \in Orders(DOMAIN inp.inner), workDirs \in Orders(DOMAIN inp.pkgs) :
             LET foundArchives ==
                     IF inp.kind = "archive" THEN <<ArchiveRef(di, 0)>>
                     ELSE IF inp.kind = "dir"
                          THEN [k \in 1..Len(gz) |-> ArchiveRef(di, gz[k])]
                          ELSE <<>>
                 foundDirs ==
                     IF inp.kind = "dir"
                     THEN [k \in 1..Len(workDirs) |-> PathOf(di, workDirs[k])]
                     ELSE <<>>
                 archives == archiveFiles \o foundArchives
                 last == di = Len(joinInputs)
             IN  /\ archiveFiles' = archives
                 /\ extractedPaths' = extractedPaths \o foundDirs
                 /\ jpc' = IF ~last THEN "detect"
                           ELSE IF Len(archives) > 0 THEN "extract" ELSE "validate"
                 \* mkdtemp when archives were found
                 /\ tempDir' = IF last /\ Len(archives) > 0
                               THEN [exists |-> TRUE, pkgs |-> <<>>] ELSE tempDir
    /\ di' = di + 1
    /\ UNCHANGED <<joinInputs, mergedMetadata, ei, validPackages, allImages, joinOut, jthrown, joinExit>>
    /\ UNCHANGED nonJoinVars

\* tar.x into the temp dir: the archive's directories are merged into what is
\* there, its files replacing files of the same path
ExtractInto(pkgs, archive) ==
    [p \in DOMAIN pkgs \cup DOMAIN archive.pkgs |->
        IF p \notin DOMAIN archive.pkgs THEN pkgs[p]
        ELSE IF p \notin DOMAIN pkgs THEN archive.pkgs[p]
        ELSE [hasImages |-> pkgs[p].hasImages \/ archive.pkgs[p].hasImages,
              images |-> archive.pkgs[p].images @@ pkgs[p].images,
              meta |-> IF archive.pkgs[p].meta # <<>> THEN archive.pkgs[p].meta
                       ELSE pkgs[p].meta]]

\* one iteration of the extraction loop: extract, then push every work-package-*
\* directory now in the temp dir; a failing extraction is logged and skipped
ExtractArchive ==
    /\ jpc = "extract"
    /\ ei <= Len(archiveFiles)
    /\ LET archive == ArchiveAt(archiveFiles[ei])
           extracted == IF archive.corrupt THEN tempDir.pkgs
                        ELSE ExtractInto(tempDir.pkgs, archive)
       IN  /\ tempDir' = [tempDir EXCEPT !.pkgs = extracted]
           /\ \E extractedDirs \in Orders(DOMAIN extracted) :
                extractedPaths' =
                    IF archive.corrupt THEN extractedPaths
                    ELSE extractedPaths
                         \o [k \in 1..Len(extractedDirs) |-> PathOf(0, extractedDirs[k])]
    /\ ei' = ei + 1
    /\ jpc' = IF ei = Len(archiveFiles) THEN "validate" ELSE "extract"
    /\ UNCHANGED <<joinInputs, mergedMetadata, di, archiveFiles, validPackages, allImages, joinOut,
                   jthrown, joinExit>>
    /\ UNCHANGED nonJoinVars

\* validatePackages over this.packagePaths = extractedPaths: every path is an
\* existing directory, so a path is valid iff it has an images folder
RECURSIVE ValidOf(_)
ValidOf(paths) ==
    IF paths = <<>> THEN <<>>
    ELSE (IF ContentAt(Head(paths)).hasImages THEN <<Head(paths)>> ELSE <<>>)
         \o ValidOf(Tail(paths))

\* the test that is never true
NoValidPackagesIgnored(valid) == FALSE

\* validPackages.length === 0
NoValidPackages(valid) == Len(valid) = 0

\* join(): validatePackages and the "No valid packages found to merge" throw
ValidatePackages ==
    /\ jpc = "validate"
    /\ LET valid == ValidOf(extractedPaths)
       IN  /\ validPackages' = valid
           /\ jthrown' = NoValidPackages(valid)
           /\ jpc' = IF NoValidPackages(valid) THEN "cleanup" ELSE "collect"
    /\ UNCHANGED <<joinInputs, mergedMetadata, di, archiveFiles, extractedPaths, ei, tempDir, allImages,
                   joinOut, joinExit>>
    /\ UNCHANGED nonJoinVars

\* the files of one images folder in the order of the pattern loop of collectImages
\* (within one pattern: in name order; the names of a folder are distinct, so the
\* order within a pattern decides nothing)
PackageImages(ref) ==
    LET names == DOMAIN ContentAt(ref).images
        listed == CHOOSE o \in Orders(names) : IsNameSorted(o, names)
    IN  GlobAll(PatternMatches(names), listed, 1)

\* the inner loop without the seenNames test: every file is kept
KeepAll(acc, ref, names) ==
    acc \o [k \in 1..Len(names) |-> [path |-> ref, name |-> names[k]]]

\* the inner loop of collectImages: skip a name already seen, else keep the file
RECURSIVE KeepUnseen(_, _, _)
KeepUnseen(acc, ref, names) ==
    IF names = <<>> THEN acc
    ELSE KeepUnseen(IF \E k \in 1..Len(acc) : acc[k].name = Head(names)
                    THEN acc
                    ELSE Append(acc, [path |-> ref, name |-> Head(names)]),
                    ref, Tail(names))

RECURSIVE CollectFrom(_, _)
CollectFrom(acc, packages) ==
    IF packages = <<>> THEN acc
    ELSE CollectFrom(KeepUnseen(acc, Head(packages), PackageImages(Head(packages))),
                     Tail(packages))

\* join(): collectImages
CollectImages ==
    /\ jpc = "collect"
    /\ allImages' = CollectFrom(<<>>, validPackages)
    /\ jpc' = "metadata"
    /\ UNCHANGED <<joinInputs, mergedMetadata, di, archiveFiles, extractedPaths, ei, tempDir,
                   validPackages, joinOut, jthrown, joinExit>>
    /\ UNCHANGED nonJoinVars

\* findMetadataFiles(packages): the metadata documents of the packages, in order
RECURSIVE FindImageMetadataFiles(_)
FindImageMetadataFiles(packages) ==
    IF packages = <<>> THEN <<>>
    ELSE ContentAt(Head(packages)).meta \o FindImageMetadataFiles(Tail(packages))

\* the content-only metadata flagged as analysed
ContentOnlyFlaggedAnalysed(images) ==
    [NoMerged EXCEPT !.totalImages = Len(images)]

\* the metadata join() builds when no metadata file is found
ContentOnlyMetadata(images) ==
    [captions |-> <<>>, aiData |-> <<>>, totalImages |-> Len(images),
     models_used |-> <<>>, total_analyzed_images |-> 0, aiEnabled |-> FALSE]

\* join(): findMetadataFiles, then mergeMetadata or the content-only metadata
FindAndMergeMetadata ==
    /\ jpc = "metadata"
    /\ LET files == FindImageMetadataFiles(validPackages)
       IN  mergedMetadata' = IF Len(files) = 0 THEN ContentOnlyMetadata(allImages)
                             ELSE MergeMetadataFiles(files)
    /\ jpc' = "create"
    /\ UNCHANGED <<joinInputs, di, archiveFiles, extractedPaths, ei, tempDir,
                   validPackages, allImages, joinOut, jthrown, joinExit>>
    /\ UNCHANGED nonJoinVars

\* the copy loop of createConsolidatedPackage: fs.copy replaces an existing file
RECURSIVE CopyAll(_, _)
CopyAll(dst, images) ==
    IF images = <<>> THEN dst
    ELSE CopyAll((Head(images).name :> ContentAt(Head(images).path).images[Head(images).name])
                 @@ dst, Tail(images))

\* join(): createConsolidatedPackage. Any fs.copy of the loop may fail; the Error
\* leaves the files copied before it and propagates out of join()
CreateConsolidatedPackage ==
    /\ jpc = "create"
    /\ \E copied \in 0..Len(allImages) :
         /\ joinOut' = [exists |-> TRUE,
                        images |-> CopyAll(joinOut.images, SubSeq(allImages, 1, copied)),
                        hasMetadata |-> copied = Len(allImages),
                        metadata |-> IF copied = Len(allImages) THEN mergedMetadata
                                     ELSE joinOut.metadata]
         /\ jthrown' = (copied < Len(allImages))
    /\ jpc' = "cleanup"
    /\ UNCHANGED <<joinInputs, mergedMetadata, di, archiveFiles, extractedPaths, ei, tempDir,
                   validPackages, allImages, joinExit>>
    /\ UNCHANGED nonJoinVars

\* the temp dir is left in place
TempDirKept(temp) == temp

\* cleanupTempFiles: if (this.tempDir && pathExists(this.tempDir)) fs.remove
TempDirCleaned(temp) == IF temp.exists THEN NoTempDir ELSE temp

\* the finally block of join() (cleanupTempFiles), then main: the result is
\* printed, or the Error is caught and the process exits with status 1
CleanupTempFiles ==
    /\ jpc = "cleanup"
    /\ tempDir' = TempDirCleaned(tempDir)
    /\ jpc' = IF jthrown THEN "failed" ELSE "done"
    /\ joinExit' = IF jthrown THEN 1 ELSE 0
    /\ UNCHANGED <<joinInputs, mergedMetadata, di, archiveFiles, extractedPaths, ei, validPackages,
                   allImages, joinOut, jthrown>>
    /\ UNCHANGED nonJoinVars

\* the packages split created are given to the joiner: the output folder of split
\* as the one input path, or every work-package-* directory as a path of its own
\* (`join-work.js ../split/work-package-*`, expanded by the shell in name order)
SplitPackage(i) == [hasImages |-> TRUE, images |-> outDir[i].images, meta |-> <<>>]

\* an output folder left by an earlier join
StaleOutput ==
    [exists |-> TRUE, images |-> (NameA :> Stamp(0, 0, 0)), hasMetadata |-> TRUE,
     metadata |-> NoMerged]

RoundTripJoin ==
    /\ pc = "done"
    /\ tool = "image"
    /\ jpc = "idle"
    /\ ~prevRun.done
    /\ DOMAIN outDir # {}
    /\ \E mode \in {"outdir", "packages"} :
         joinInputs' =
            IF mode = "outdir"
            THEN <<Directory(NoContent, [i \in DOMAIN outDir |-> SplitPackage(i)], <<>>)>>
            ELSE [i \in DOMAIN outDir |-> Directory(SplitPackage(i), <<>>, <<>>)]
    /\ force' \in BOOLEAN
    /\ joinOut' \in {NoOutput, StaleOutput}
    /\ pc' = "joined"
    /\ jpc' = "main"
    /\ UNCHANGED <<di, archiveFiles, extractedPaths, ei, tempDir, validPackages,
                   allImages, mergedMetadata, jthrown, joinExit>>
    /\ UNCHANGED <<tool, argv, sourceExists, sourceDir, numSplits, imageFiles, chunks,
                   warned, outputExists, outDir, createdPackages, exitCode, prevRun>>
    /\ UNCHANGED <<mergeVars, docVars, createVars, cleanVars>>

\* fs.remove(outputPath)
Removed(out) == NoOutput

\* main(), up to the call of join(): an existing output folder is removed in
\* both branches of the test on options.force
JoinMain ==
    /\ jpc = "main"
    /\ joinOut' = IF joinOut.exists /\ ~force
                  THEN Removed(joinOut)
                  ELSE IF joinOut.exists /\ force THEN Removed(joinOut) ELSE joinOut
    /\ jpc' = "detect"
    /\ UNCHANGED <<joinInputs, mergedMetadata, di, archiveFiles, extractedPaths, ei, tempDir,
                   validPackages, allImages, jthrown, joinExit>>
    /\ UNCHANGED nonJoinVars

\* no splitter runs
SplitIdle ==
    /\ tool = "image"
    /\ argv = <<>>
    /\ sourceExists = FALSE
    /\ sourceDir = {}
    /\ pc = "none"
    /\ numSplits = NaN
    /\ imageFiles = <<>>
    /\ chunks = <<>>
    /\ warned = FALSE
    /\ outputExists = FALSE
    /\ outDir = <<>>
    /\ createdPackages = <<>>
    /\ exitCode = 0
    /\ prevRun = NoRun

\* the joiner started on arbitrary input paths
JoinStart ==
    /\ joinInputs \in UNION {InputSeqs(n) : n \in 1..MaxInputs}
    /\ jpc = "detect"
    /\ di = 1
    /\ archiveFiles = <<>>
    /\ extractedPaths = <<>>
    /\ ei = 1
    /\ tempDir = NoTempDir
    /\ validPackages = <<>>
    /\ allImages = <<>>
    /\ joinOut = NoOutput
    /\ mergedMetadata = NoMerged
    /\ jthrown = FALSE
    /\ joinExit = 0
    /\ force = FALSE

JoinCore ==
    \/ DetectInput
    \/ ValidatePackages
    \/ CollectImages
    \/ FindAndMergeMetadata
    \/ CreateConsolidatedPackage
    \/ CleanupTempFiles

JoinNext ==
    \/ JoinCore
    \/ ExtractArchive

----------------------------------------------------------------------------
(* mergeMetadata of the image joiner, step by step *)

NoEarlierMerge == [done |-> FALSE, merged |-> NoMerged]

MergeIdle ==
    /\ metadataFiles = <<>>
    /\ mpc = "idle"
    /\ mi = 1
    /\ merged = NoMerged
    /\ imageCount = 0
    /\ modelsUsed = <<>>
    /\ prevMerged = NoEarlierMerge

\* a file that does not parse ends the loop
AfterMetaFileStopOnError(data, last) ==
    IF last \/ ~data.parses THEN "finish" ELSE "merge"

\* where the loop goes after a file: the catch block ends with `continue`, so a
\* file that threw is followed by the next file like any other
AfterMetaFile(data, last) == IF last THEN "finish" ELSE "merge"

\* one iteration of the loop over metadataFiles
MergeFile ==
    /\ mpc = "merge"
    /\ mi <= Len(metadataFiles)
    /\ LET st == MergeStep([merged |-> merged, models |-> modelsUsed, count |-> imageCount],
                           metadataFiles[mi])
       IN  /\ merged' = st.merged
           /\ modelsUsed' = st.models
           /\ imageCount' = st.count
    /\ mi' = mi + 1
    /\ mpc' = AfterMetaFile(metadataFiles[mi], mi = Len(metadataFiles))
    /\ UNCHANGED <<metadataFiles, prevMerged>>
    /\ UNCHANGED nonMergeVars

\* the statements after the loop
MergeFinish ==
    /\ mpc = "finish"
    /\ merged' = Finished([merged |-> merged, models |-> modelsUsed, count |-> imageCount])
    /\ mpc' = "done"
    /\ UNCHANGED <<metadataFiles, mi, imageCount, modelsUsed, prevMerged>>
    /\ UNCHANGED nonMergeVars

\* mergeMetadata is called again, on the same documents followed by one of them
\* once more
MergeAgain ==
    /\ mpc = "done"
    /\ ~prevMerged.done
    /\ \E i \in 1..Len(metadataFiles) :
         metadataFiles' = Append(metadataFiles, metadataFiles[i])
    /\ prevMerged' = [done |-> TRUE, merged |-> merged]
    /\ mpc' = "merge"
    /\ mi' = 1
    /\ merged' = NoMerged
    /\ imageCount' = 0
    /\ modelsUsed' = <<>>
    /\ UNCHANGED nonMergeVars

MergeNext ==
    \/ MergeFile
    \/ MergeFinish
    \/ MergeAgain

----------------------------------------------------------------------------
(* The document joiner. The input folder is taken as extractCompressedPackages *)
(* leaves it: its directories and their metadata files. *)

\* the directories an input folder may hold
DocuPackage001 == <<100, 111, 99, 117, 45, 112, 97, 99, 107, 97, 103, 101, 45, 48, 48, 49>>
TeamPackage == <<84, 101, 97, 109, 45, 80, 97, 99, 107, 97, 103, 101>>
Notes == <<110, 111, 116, 101, 115>>
DirectoryNames == {DocuPackage001, TeamPackage, Notes}

\* "docu-package-" and "package"
DocuPackagePrefix == <<100, 111, 99, 117, 45, 112, 97, 99, 107, 97, 103, 101, 45>>
PackageWord == <<112, 97, 99, 107, 97, 103, 101>>

StartsWith(s, prefix) ==
    Len(s) >= Len(prefix) /\ SubSeq(s, 1, Len(prefix)) = prefix

Includes(s, sub) ==
    \E i \in 1..(Len(s) - Len(sub) + 1) : SubSeq(s, i, i + Len(sub) - 1) = sub

\* supportedMetadataPatterns, by position
PatternIds == 1..4

DocX == "x.md"
DocY == "y.md"

\* what a metadata file holds: text that is not JSON, an object without a
\* `metadata` key, or an object whose `metadata` maps document names to records;
\* a record carries the file it was written in
NotJson == [json |-> FALSE, hasMetadata |-> FALSE, metadata |-> <<>>]
NoMetadataKey == [json |-> TRUE, hasMetadata |-> FALSE, metadata |-> <<>>]
MetadataOf(names, record) ==
    [json |-> TRUE, hasMetadata |-> TRUE, metadata |-> [n \in names |-> record]]

RecordOf(dir, pattern) == [dir |-> dir, pattern |-> pattern]

FileContents(dir, pattern) ==
    {NotJson, NoMetadataKey, MetadataOf({DocX}, RecordOf(dir, pattern)),
     MetadataOf({DocX, DocY}, RecordOf(dir, pattern))}

PatternSets == {{}, {1}, {4}, {2, 4}}

\* the metadata files a directory may hold at the pattern positions ps
RECURSIVE FilesAt(_, _)
FilesAt(dir, ps) ==
    IF ps = {} THEN {<<>>}
    ELSE LET p == CHOOSE q \in ps : TRUE
         IN  {(p :> c) @@ f : c \in FileContents(dir, p), f \in FilesAt(dir, ps \ {p})}

DirectoryFiles(dir) == UNION {FilesAt(dir, ps) : ps \in PatternSets}

\* the input folders with the directories ds
RECURSIVE FoldersOf(_)
FoldersOf(ds) ==
    IF ds = {} THEN {<<>>}
    ELSE LET d == CHOOSE e \in ds : TRUE
         IN  {(d :> files) @@ f : files \in DirectoryFiles(d), f \in FoldersOf(ds \ {d})}

InputFolders(n) ==
    UNION {FoldersOf(ds) : ds \in {s \in SUBSET DirectoryNames : Cardinality(s) \in 1..n}}

HasMetadataFiles(directory) == \E p \in PatternIds : p \in DOMAIN inputFolder[directory]

IsPackage(item) ==
    \/ StartsWith(item, DocuPackagePrefix)
    \/ Includes(ToLowerCase(item), PackageWord)
    \/ HasMetadataFiles(item)

DocIdle ==
    /\ inputFolder = <<>>
    /\ dpc = "idle"
    /\ packageDirs = <<>>
    /\ dpi = 1
    /\ allMetadata = <<>>
    /\ mergedData = <<>>
    /\ docExit = 0

\* join(): findPackageDirectories over readdir in any order, sorted; the Error
\* when none is found
FindPackageDirectories ==
    /\ dpc = "find"
    /\ \E items \in Orders(DOMAIN inputFolder) :
         LET dirs == JsSort(Filter(items, {item \in DOMAIN inputFolder : IsPackage(item)}))
         IN  /\ packageDirs' = dirs
             /\ dpc' = IF dirs = <<>> THEN "failed" ELSE "load"
             /\ docExit' = IF dirs = <<>> THEN 1 ELSE 0
    /\ UNCHANGED <<inputFolder, dpi, allMetadata, mergedData>>
    /\ UNCHANGED nonDocVars

\* findMetadataFiles: the files of the directory in the order of the patterns
RECURSIVE FindMetadataFiles(_, _)
FindMetadataFiles(packageDir, p) ==
    IF p > 4 THEN <<>>
    ELSE (IF p \in DOMAIN inputFolder[packageDir] THEN <<p>> ELSE <<>>)
         \o FindMetadataFiles(packageDir, p + 1)

\* loadMetadataFile returns the object; it throws on text that is not JSON and
\* on an object without `metadata`
Loads(content) == content.json /\ content.hasMetadata

\* the inner loop of join(): every file that loads is pushed onto allMetadata
RECURSIVE LoadAll(_, _, _)
LoadAll(acc, packageDir, files) ==
    IF files = <<>> THEN acc
    ELSE LoadAll(IF Loads(inputFolder[packageDir][Head(files)])
                 THEN Append(acc, inputFolder[packageDir][Head(files)].metadata)
                 ELSE acc,
                 packageDir, Tail(files))

\* one iteration of the loop over packageDirs
ProcessPackage ==
    /\ dpc = "load"
    /\ dpi <= Len(packageDirs)
    /\ allMetadata' = LoadAll(allMetadata, packageDirs[dpi],
                              FindMetadataFiles(packageDirs[dpi], 1))
    /\ dpi' = dpi + 1
    /\ dpc' = IF dpi = Len(packageDirs) THEN "merge" ELSE "load"
    /\ UNCHANGED <<inputFolder, packageDirs, mergedData, docExit>>
    /\ UNCHANGED nonDocVars

\* Object.assign(target, source): every key of source is written to target
ObjectAssign(target, source) == source @@ target

\* the loop of mergeMetadata
RECURSIVE AssignAll(_, _)
AssignAll(metadata, all) ==
    IF all = <<>> THEN metadata
    ELSE AssignAll(ObjectAssign(metadata, Head(all)), Tail(all))

\* join(): the Error when nothing was loaded, else mergeMetadata and the save
MergeMetadata ==
    /\ dpc = "merge"
    /\ IF allMetadata = <<>>
       THEN /\ dpc' = "failed"
            /\ docExit' = 1
            /\ UNCHANGED mergedData
       ELSE /\ mergedData' = AssignAll(<<>>, allMetadata)
            /\ dpc' = "done"
            /\ UNCHANGED docExit
    /\ UNCHANGED <<inputFolder, packageDirs, dpi, allMetadata>>
    /\ UNCHANGED nonDocVars

DocNext ==
    \/ FindPackageDirectories
    \/ ProcessPackage
    \/ MergeMetadata

----------------------------------------------------------------------------
(* The CLI action of the document joiner: extractCompressedPackages, join  *)
(* and the --clean-extracted cleanup                                       *)

CleanIdle ==
    /\ docArchives = {}
    /\ cleanExtracted = FALSE
    /\ docExtracted = <<>>
    /\ preExisting = {}

\* the folder NAME/ that NAME.zip holds: one metadata file
ZipFolder(name) == (4 :> MetadataOf({DocX}, RecordOf(name, 4)))

\* zip.extractAllTo(inputFolder, true) for each .zip of the input folder: the
\* folder of the archive is created, or its files replace those of an existing
\* folder of that name
ExtractAllTo(folder, names) ==
    [d \in DOMAIN folder \cup names |->
        IF d \notin names THEN folder[d]
        ELSE IF d \notin DOMAIN folder THEN ZipFolder(d)
        ELSE ZipFolder(d) @@ folder[d]]

\* join(): extractCompressedPackages over the archives in readdir order
ExtractCompressedPackages ==
    /\ dpc = "extract"
    /\ inputFolder' = ExtractAllTo(inputFolder, docArchives)
    /\ \E order \in Orders(docArchives) : docExtracted' = order
    /\ dpc' = "find"
    /\ UNCHANGED <<packageDirs, dpi, allMetadata, mergedData, docExit>>
    /\ UNCHANGED <<docArchives, cleanExtracted, preExisting>>
    /\ UNCHANGED nonCliVars

\* the directories the cleanup loop removes: stats.isDirectory() and
\* item.startsWith('docu-package-')
CleanupTargets(folder) == {item \in DOMAIN folder : StartsWith(item, DocuPackagePrefix)}

\* the end of the CLI action after a successful join(): the cleanup under
\* options.cleanExtracted
CleanExtracted ==
    /\ dpc = "done"
    /\ inputFolder' =
          IF cleanExtracted
          THEN [d \in DOMAIN inputFolder \ CleanupTargets(inputFolder) |-> inputFolder[d]]
          ELSE inputFolder
    /\ dpc' = "cleaned"
    /\ UNCHANGED <<packageDirs, dpi, allMetadata, mergedData, docExit>>
    /\ UNCHANGED cleanVars
    /\ UNCHANGED nonCliVars

CliNext ==
    \/ ExtractCompressedPackages
    \/ FindPackageDirectories
    \/ ProcessPackage
    \/ MergeMetadata
    \/ CleanExtracted

----------------------------------------------------------------------------
(* createWorkPackage statement by statement: what a package directory      *)
(* holds after each write, any of which may throw                          *)

\* the package directory right after it is created
EmptyPackage ==
    [html |-> FALSE, docs |-> "none", content |-> {}, manifest |-> <<>>,
     readme |-> FALSE]

CreateIdle ==
    /\ projectRoot = [docs |-> FALSE]
    /\ step = "idle"
    /\ copyIndex = 1
    /\ packageTree = <<>>

\* the package createWorkPackage is working on
CurrentId == Len(createdPackages) + 1

\* packageTree with field changes applied to the current package
TreeWith(changes) == [packageTree EXCEPT ![CurrentId] = changes @@ @]

\* an error thrown in createWorkPackage leaves split(); main reports it and
\* calls process.exit(1)
CreateAbort ==
    /\ pc' = "exit"
    /\ exitCode' = 1

\* fs.ensureDir(packagePath) / fs.mkdir(packagePath, {recursive: true})
EnsurePackageDir ==
    /\ pc = "create"
    /\ step = "mkdir"
    /\ Len(createdPackages) < Len(chunks)
    /\ packageTree' = (CurrentId :> EmptyPackage) @@ packageTree
    /\ step' = "html"
    /\ UNCHANGED <<projectRoot, copyIndex>>
    /\ UNCHANGED splitVars
    /\ UNCHANGED nonCreateVars

\* the loop over this.htmlFiles
CopyHtmlFiles ==
    /\ pc = "create"
    /\ step = "html"
    /\ \E copied \in BOOLEAN :
         IF copied
         THEN /\ packageTree' = TreeWith([html |-> TRUE])
              /\ step' = "docs"
              /\ UNCHANGED <<pc, exitCode>>
         ELSE /\ CreateAbort
              /\ UNCHANGED <<packageTree, step>>
    /\ UNCHANGED <<projectRoot, copyIndex>>
    /\ UNCHANGED <<tool, argv, sourceExists, sourceDir, numSplits, imageFiles, chunks,
                   warned, outputExists, outDir, createdPackages, prevRun>>
    /\ UNCHANGED nonCreateVars

\* the copy of the docs folder: the image splitter lets an error of fs.copy
\* propagate, the document splitter catches every error of the block
CopyDocsFolder ==
    /\ pc = "create"
    /\ step = "docs"
    /\ \E copied \in BOOLEAN :
         IF ~projectRoot.docs
         THEN /\ step' = "copy"
              /\ UNCHANGED <<packageTree, pc, exitCode>>
         ELSE IF copied
         THEN /\ packageTree' = TreeWith([docs |-> "copied"])
              /\ step' = "copy"
              /\ UNCHANGED <<pc, exitCode>>
         ELSE IF tool = "image"
         THEN /\ packageTree' = TreeWith([docs |-> "partial"])
              /\ CreateAbort
              /\ UNCHANGED step
         ELSE /\ packageTree' = TreeWith([docs |-> "partial"])
              /\ step' = "copy"
              /\ UNCHANGED <<pc, exitCode>>
    /\ copyIndex' = 1
    /\ UNCHANGED projectRoot
    /\ UNCHANGED <<tool, argv, sourceExists, sourceDir, numSplits, imageFiles, chunks,
                   warned, outputExists, outDir, createdPackages, prevRun>>
    /\ UNCHANGED nonCreateVars

\* one iteration of the loop over the chunk: fs.copy / fs.copyFile of one file
CopyContentFile ==
    /\ pc = "create"
    /\ step = "copy"
    /\ LET chunk == chunks[CurrentId]
       IN  /\ copyIndex <= Len(chunk)
           /\ \E copied \in BOOLEAN :
                IF copied
                THEN /\ packageTree' =
                          TreeWith([content |-> packageTree[CurrentId].content
                                                \cup {chunk[copyIndex]}])
                     /\ copyIndex' = copyIndex + 1
                     /\ step' = IF copyIndex = Len(chunk) THEN "manifest" ELSE "copy"
                     /\ UNCHANGED <<pc, exitCode>>
                ELSE /\ CreateAbort
                     /\ UNCHANGED <<packageTree, copyIndex, step>>
    /\ UNCHANGED projectRoot
    /\ UNCHANGED <<tool, argv, sourceExists, sourceDir, numSplits, imageFiles, chunks,
                   warned, outputExists, outDir, createdPackages, prevRun>>
    /\ UNCHANGED nonCreateVars

\* createManifest; the image splitter returns after it and split() pushes the
\* package path
CreateManifest ==
    /\ pc = "create"
    /\ step = "manifest"
    /\ \E written \in BOOLEAN :
         IF written
         THEN /\ packageTree' =
                   TreeWith([manifest |->
                               <<Manifest(CurrentId, chunks[CurrentId], numSplits)>>])
              /\ step' = IF tool = "docu" THEN "readme" ELSE "mkdir"
              /\ createdPackages' = IF tool = "docu" THEN createdPackages
                                    ELSE Append(createdPackages, CurrentId)
              /\ UNCHANGED <<pc, exitCode>>
         ELSE /\ CreateAbort
              /\ UNCHANGED <<packageTree, step, createdPackages>>
    /\ UNCHANGED <<projectRoot, copyIndex>>
    /\ UNCHANGED <<tool, argv, sourceExists, sourceDir, numSplits, imageFiles, chunks,
                   warned, outputExists, outDir, prevRun>>
    /\ UNCHANGED nonCreateVars

\* createPackageReadme of the document splitter, then the return and the push
CreatePackageReadme ==
    /\ pc = "create"
    /\ step = "readme"
    /\ \E written \in BOOLEAN :
         IF written
         THEN /\ packageTree' = TreeWith([readme |-> TRUE])
              /\ step' = "mkdir"
              /\ createdPackages' = Append(createdPackages, CurrentId)
              /\ UNCHANGED <<pc, exitCode>>
         ELSE /\ CreateAbort
              /\ UNCHANGED <<packageTree, step, createdPackages>>
    /\ UNCHANGED <<projectRoot, copyIndex>>
    /\ UNCHANGED <<tool, argv, sourceExists, sourceDir, numSplits, imageFiles, chunks,
                   warned, outputExists, outDir, prevRun>>
    /\ UNCHANGED nonCreateVars

CreateNext ==
    \/ EnsurePackageDir
    \/ CopyHtmlFiles
    \/ CopyDocsFolder
    \/ CopyContentFile
    \/ CreateManifest
    \/ CreatePackageReadme
    \/ SplitReturn

----------------------------------------------------------------------------
(* Properties of the splitter *)

\* the files of the source the running splitter selects
Matching == IF tool = "image" THEN ImageMatches(sourceDir) ELSE DocumentMatches(sourceDir)

\* the split ran to its end with a numSplits that is a number
SplitSucceeded == pc \in {"done", "joined"} /\ exitCode = 0

\* the manifest item lists of the packages this run created
ManifestItems(i) == outDir[i].manifest.images

\* C1: with K >= 1 matching files, N in 1..100 and c = ceil(K/N), package i holds
\* exactly the files at positions (i-1)*c .. min(i*c, K)-1 of the name-sorted list:
\* every package but the last has c files, the last between 1 and c.
C1_ChunkPositions ==
    (SplitSucceeded /\ ~numSplits.nan) =>
        LET K == Len(imageFiles)
            N == numSplits.val
            c == CeilDiv(K, N)
            P == Len(createdPackages)
        IN  /\ K >= 1 /\ N \in MinSplits..MaxSplits
            /\ IsNameSorted(imageFiles, Matching)
            /\ P >= 1
            /\ \A i \in 1..P :
                 LET lo == (i - 1) * c
                     hi == Min(i * c, K)
                 IN  /\ createdPackages[i] = i
                     /\ ManifestItems(i) = [j \in 1..(hi - lo) |-> imageFiles[lo + j]]
                     /\ Range(ManifestItems(i)) \subseteq DOMAIN outDir[i].images
                     /\ (i < P => hi - lo = c)
                     /\ (i = P => (hi - lo >= 1 /\ hi - lo <= c))

\* C1 witness: the run of the spec's scenario, five files and numSplits = 2
C1_Witness ==
    /\ SplitSucceeded
    /\ Len(imageFiles) = 5 /\ numSplits = Num(2)
    /\ Len(createdPackages) = 2
    /\ Len(ManifestItems(1)) = 3 /\ Len(ManifestItems(2)) = 2

\* C2: after a successful split the manifest item lists of the created packages
\* partition the matching source files: nothing omitted, nothing listed twice.
C2_ManifestsPartition ==
    SplitSucceeded =>
        /\ UNION {Range(ManifestItems(i)) : i \in Range(createdPackages)} = Matching
        /\ \A i, j \in Range(createdPackages) :
             i # j => Range(ManifestItems(i)) \cap Range(ManifestItems(j)) = {}
        /\ \A i \in Range(createdPackages) :
             \A a, b \in 1..Len(ManifestItems(i)) :
                 a # b => ManifestItems(i)[a] # ManifestItems(i)[b]

\* what C2 states, for the runs whose numSplits is a number
C2_PartitionWhenNumber == ~numSplits.nan => C2_ManifestsPartition

\* C7: two runs on the same source with the same numSplits give the same
\* file-to-package assignment, whatever order the enumerations return.
C7_Deterministic ==
    (SplitSucceeded /\ prevRun.done /\ ~JsNotEqual(prevRun.numSplits, numSplits)) =>
        chunks = prevRun.chunks

\* C7 witness: a second run over several files in several packages has ended
C7_Witness ==
    /\ SplitSucceeded /\ prevRun.done
    /\ Len(chunks) >= 2 /\ Len(imageFiles) >= 3

\* C8: with numSplits > K >= 1 split creates exactly K packages of one file each,
\* no empty package, and reports that the count differs from the requested one.
C8_MoreSplitsThanFiles ==
    (SplitSucceeded /\ ~numSplits.nan /\ numSplits.val > Len(imageFiles)) =>
        /\ Len(createdPackages) = Len(imageFiles)
        /\ \A i \in Range(createdPackages) :
             /\ Len(ManifestItems(i)) = 1
             /\ outDir[i].manifest.image_count = 1
        /\ \A i \in DOMAIN outDir : DOMAIN outDir[i].images # {}
        /\ warned

\* C8 witness: three files, numSplits = 100
C8_Witness ==
    /\ SplitSucceeded
    /\ numSplits = Num(100) /\ Len(imageFiles) = 3 /\ Len(createdPackages) = 3

\* the argument is a decimal integer literal
IsIntegerLiteral(s) ==
    LET body == IF s # <<>> /\ Head(s) \in {"-", "+"} THEN Tail(s) ELSE s
    IN  body # <<>> /\ \A i \in 1..Len(body) : IsDigit(body[i])

\* the argument is an integer in 1..100
ValidNumSplitsArg(s) ==
    /\ IsIntegerLiteral(s)
    /\ Head(s) # "-"
    /\ DigitsValue(IF Head(s) = "+" THEN Tail(s) ELSE s) \in MinSplits..MaxSplits

\* C9: a --num-splits value that is not an integer in 1..100 ends the splitter
\* with a non-zero status and no package directory.
C9_InvalidNumSplitsRejected ==
    (pc \in {"done", "exit", "joined"} /\ ~ValidNumSplitsArg(argv)) =>
        /\ exitCode >= 1
        /\ DOMAIN outDir = {}

\* the part of C9 the code does enforce: a number below 1 or above 100 is rejected
C9_OutOfRangeRejected ==
    (pc # "cli" /\ ~numSplits.nan /\ numSplits.val \notin MinSplits..MaxSplits) =>
        /\ pc = "exit" /\ exitCode = 1 /\ DOMAIN outDir = {} /\ ~outputExists

\* C10: with at least numSplits matching files split creates exactly numSplits
\* packages; fewer are created only when totalFiles < numSplits.
C10_RequestedPackageCount ==
    (SplitSucceeded /\ ~numSplits.nan) =>
        /\ (Len(imageFiles) >= numSplits.val => Len(createdPackages) = numSplits.val)
        /\ (Len(createdPackages) < numSplits.val => Len(imageFiles) < numSplits.val)

\* C11: the packages of one run have the ids 1..P, each is named with its id
\* zero-padded to three digits, and each holds at least one content file.
C11_ContiguousIdsPaddedNames ==
    SplitSucceeded =>
        LET P == Len(createdPackages)
        IN  /\ 1..P \subseteq DOMAIN outDir
            /\ \A i \in 1..P :
                  /\ createdPackages[i] = i
                  /\ outDir[i].manifest.id = i
                  /\ PackageName(tool, i) =
                        (IF tool = "image" THEN WorkPackagePrefix ELSE DocuPrefix)
                        \o <<48 + (i \div 100), 48 + ((i \div 10) % 10), 48 + (i % 10)>>
                  /\ DOMAIN outDir[i].images # {}
                  /\ Len(outDir[i].manifest.images) >= 1

C11_Witness ==
    /\ SplitSucceeded
    /\ Len(createdPackages) >= 3
    /\ tool = "docu"

\* the extension of file n, compared ignoring case, is in the allow-list
Supported(t, n) ==
    ToLowerCase(ExtName(n)) \in
        (IF t = "image" THEN Range(ImageExtensions) ELSE DocumentExtensions)

Terminated == pc \in {"done", "exit", "joined"}

\* C17: with a missing source directory, or one without any file of a supported
\* extension, the splitter exits non-zero and creates neither the output
\* directory nor a package directory.
C17_NoSourceNoOutput ==
    (Terminated /\ (~sourceExists \/ \A n \in sourceDir : ~Supported(tool, n))) =>
        /\ exitCode >= 1
        /\ ~outputExists
        /\ DOMAIN outDir = {}
        /\ createdPackages = <<>>

\* a run on an existing source that holds files, none of them supported
C17_Witness ==
    /\ pc = "exit"
    /\ sourceExists
    /\ sourceDir # {}
    /\ \A n \in sourceDir : ~Supported(tool, n)
    /\ ~numSplits.nan
    /\ numSplits.val \in MinSplits..MaxSplits

\* file n is listed in the manifest of some package of this run
Assigned(n) == \E i \in Range(createdPackages) : n \in Range(ManifestItems(i))

\* the extension of file n is an allow-list entry as written or in upper case
ExactCase(t, n) ==
    \E ext \in (IF t = "image" THEN Range(ImageExtensions) ELSE DocumentExtensions) :
        ExtName(n) \in {ext, ToUpperCase(ext)}

\* C18: after a split, a file of the source directory is in some package if and
\* only if its extension, compared ignoring case, is in the allow-list.
C18_CaseInsensitiveFilter ==
    (SplitSucceeded /\ ~numSplits.nan) =>
        \A n \in sourceDir : Assigned(n) <=> Supported(tool, n)

\* what holds of both splitters: the document splitter compares ignoring case,
\* the image splitter assigns the files whose extension is all lower or all
\* upper case
C18_FilterAsCoded ==
    (SplitSucceeded /\ ~numSplits.nan) =>
        \A n \in sourceDir :
            Assigned(n) <=> IF tool = "image" THEN ExactCase(tool, n)
                                              ELSE Supported(tool, n)

\* package directory i holds package-manifest.json
HasManifest(i) == packageTree[i].manifest # <<>>

\* package directory i holds every content file its manifest lists
ListedContentPresent(i) ==
    Range(packageTree[i].manifest[1].images) \subseteq packageTree[i].content

\* package directory i holds the HTML files, and the docs folder when the
\* project root has one
StaticAssetsPresent(i) ==
    /\ packageTree[i].html
    /\ projectRoot.docs => packageTree[i].docs = "copied"

\* C19: at every point of a split run, a package directory that holds
\* package-manifest.json holds its static assets, every content file the manifest
\* lists, and, for the splitter that generates one, its README.
C19_ManifestWrittenLast ==
    \A i \in DOMAIN packageTree :
        HasManifest(i) =>
            /\ StaticAssetsPresent(i)
            /\ ListedContentPresent(i)
            /\ tool = "docu" => packageTree[i].readme

\* what holds of both splitters: the manifest is written after the HTML files
\* and the content files; the image splitter writes nothing after it
C19_ManifestAfterContent ==
    \A i \in DOMAIN packageTree :
        HasManifest(i) =>
            /\ packageTree[i].html
            /\ ListedContentPresent(i)
            /\ packageTree[i].manifest[1] = Manifest(i, chunks[i], numSplits)
            /\ tool = "image" => StaticAssetsPresent(i)

\* the packages split() returns are the packages the one-step model creates
C19_StepsAgreeWithPackage ==
    \A i \in Range(createdPackages) :
        /\ HasManifest(i)
        /\ packageTree[i].content = DOMAIN PackageAfter(<<>>, i, chunks[i], numSplits).images
        /\ packageTree[i].manifest[1] = PackageAfter(<<>>, i, chunks[i], numSplits).manifest

\* C27: the manifests of one split run all record the same total_packages, the
\* number of packages the run created.
C27_TotalPackagesIsCreated ==
    (SplitSucceeded /\ ~numSplits.nan) =>
        \A i \in Range(createdPackages) :
            outDir[i].manifest.total_packages = Num(Len(createdPackages))

\* what holds: every manifest records the requested numSplits
C27_TotalPackagesIsRequested ==
    SplitSucceeded =>
        \A i \in Range(createdPackages) : outDir[i].manifest.total_packages = numSplits

\* C29: after a further split run into the same output directory, the directory
\* holds the packages of that run and no other, and the content folder of each
\* holds exactly the files its manifest lists.
C29_OutputIsLatestRun ==
    (SplitSucceeded /\ prevRun.done /\ ~numSplits.nan) =>
        /\ DOMAIN outDir = Range(createdPackages)
        /\ \A i \in DOMAIN outDir : DOMAIN outDir[i].images = Range(ManifestItems(i))

\* what holds: every package of the latest run has at least the files its
\* manifest lists, and the manifest is the one that run wrote
C29_LatestPackagesComplete ==
    (SplitSucceeded /\ prevRun.done /\ ~numSplits.nan) =>
        /\ Range(createdPackages) \subseteq DOMAIN outDir
        /\ \A i \in Range(createdPackages) :
              /\ Range(ManifestItems(i)) \subseteq DOMAIN outDir[i].images
              /\ outDir[i].manifest = Manifest(i, chunks[i], numSplits)

----------------------------------------------------------------------------
(* Properties of the image joiner *)

\* the joiner has ended, with the consolidated package or with the Error
JoinEnded == jpc \in {"done", "failed"}

\* a copy into the consolidated package failed
CopyFailed == jthrown /\ validPackages # <<>>

\* input i hands the joiner a package with a file named n: it is a readable
\* archive of such a package, or a directory whose work-package-* children or
\* whose archives hold one
HoldsFile(i, n) ==
    LET inp == joinInputs[i]
    IN  \/ /\ inp.kind = "archive"
           /\ ~inp.corrupt
           /\ \E p \in DOMAIN inp.pkgs : n \in DOMAIN inp.pkgs[p].images
        \/ /\ inp.kind = "dir"
           /\ \/ \E p \in DOMAIN inp.pkgs : n \in DOMAIN inp.pkgs[p].images
              \/ \E k \in DOMAIN inp.inner :
                    \E p \in DOMAIN inp.inner[k].pkgs :
                        n \in DOMAIN inp.inner[k].pkgs[p].images

Holders(n) == {i \in DOMAIN joinInputs : HoldsFile(i, n)}

FirstHolder(n) == CHOOSE i \in Holders(n) : \A j \in Holders(n) : i <= j

\* C3: when several input paths hold a package with a file of the same name, the
\* consolidated file of that name is the one of the first of them in argument order.
C3_ContentFirstSurvives ==
    (jpc = "done" /\ pc = "none") =>
        \A n \in DOMAIN joinOut.images :
            Cardinality(Holders(n)) >= 2 =>
                OriginInput(joinOut.images[n]) = FirstHolder(n)

\* the part of C3 the code does keep: when no input is or holds an archive, the
\* file of the first input survives
C3_FirstSurvivesAmongDirectories ==
    (jpc = "done" /\ pc = "none" /\ archiveFiles = <<>>) =>
        \A n \in DOMAIN joinOut.images :
            Holders(n) # {} /\ OriginInput(joinOut.images[n]) = FirstHolder(n)

\* C12: an existing output folder is removed only under --force.
C12_RemovalOnlyUnderForce ==
    [][(joinOut.exists /\ ~joinOut'.exists) => force]_vars

\* C13: every input path that is a directory with an images folder is accepted
\* as a package and merged, a package directory given as argument included.
C13_DirectoryWithImagesAccepted ==
    (JoinEnded /\ pc = "none" /\ ~CopyFailed) =>
        \A i \in DOMAIN joinInputs :
            (joinInputs[i].kind = "dir" /\ joinInputs[i].own.hasImages) =>
                /\ jpc = "done"
                /\ DOMAIN joinInputs[i].own.images \subseteq DOMAIN joinOut.images

\* the part of C13 the code does keep: the work-package-* children of an input
\* directory that have an images folder are merged, and the children without one
\* do not end the run
C13_ChildPackagesAccepted ==
    (jpc = "done" /\ pc = "none") =>
        \A i \in DOMAIN joinInputs : \A p \in DOMAIN joinInputs[i].pkgs :
            (joinInputs[i].kind = "dir" /\ joinInputs[i].pkgs[p].hasImages) =>
                /\ PathOf(i, p) \in Range(validPackages)
                /\ DOMAIN joinInputs[i].pkgs[p].images \subseteq DOMAIN joinOut.images

\* the inputs hand the joiner no package directory with an images folder
NoPackageOffered ==
    \A i \in DOMAIN joinInputs :
        LET inp == joinInputs[i]
        IN  /\ inp.kind = "archive" =>
                  (inp.corrupt \/ \A p \in DOMAIN inp.pkgs : ~inp.pkgs[p].hasImages)
            /\ inp.kind = "dir" =>
                  /\ \A p \in DOMAIN inp.pkgs : ~inp.pkgs[p].hasImages
                  /\ \A k \in DOMAIN inp.inner :
                        \A p \in DOMAIN inp.inner[k].pkgs : ~inp.inner[k].pkgs[p].hasImages

\* C14: when no input yields a valid package, join ends with the Error, the
\* process exits non-zero and no consolidated package is written.
C14_NoValidPackagesFails ==
    (JoinEnded /\ pc = "none" /\ validPackages = <<>>) =>
        /\ NoPackageOffered
        /\ jpc = "failed"
        /\ joinExit >= 1
        /\ ~joinOut.exists
        /\ allImages = <<>>

C14_Witness ==
    /\ jpc = "failed"
    /\ pc = "none"
    /\ validPackages = <<>>
    /\ Len(joinInputs) >= 2
    /\ \E i \in DOMAIN joinInputs :
          joinInputs[i].kind = "dir" /\ DOMAIN joinInputs[i].pkgs # {}

\* C20: whenever join has ended, with the package or with an Error, the temp dir
\* of the run is gone.
C20_TempDirRemoved ==
    JoinEnded => ~tempDir.exists

\* an Error ended a run that had extracted archives
C20_Witness ==
    /\ jpc = "failed"
    /\ validPackages # <<>>
    /\ archiveFiles # <<>>
    /\ ~tempDir.exists

\* some package the inputs hold has a metadata document
MetadataOffered ==
    \E i \in DOMAIN joinInputs :
        \/ \E p \in DOMAIN joinInputs[i].pkgs : joinInputs[i].pkgs[p].meta # <<>>
        \/ \E k \in DOMAIN joinInputs[i].inner :
              \E p \in DOMAIN joinInputs[i].inner[k].pkgs :
                  joinInputs[i].inner[k].pkgs[p].meta # <<>>

\* C15: without any metadata document the join still succeeds (unless a copy
\* fails) and writes a content-only package: aiEnabled false, no captions, no
\* aiData, nothing analysed, and totalImages the number of consolidated files.
C15_ContentOnlyPackage ==
    (JoinEnded /\ pc = "none" /\ validPackages # <<>> /\ ~CopyFailed /\ ~MetadataOffered) =>
        /\ jpc = "done"
        /\ joinExit = 0
        /\ joinOut.hasMetadata
        /\ joinOut.metadata.aiEnabled = FALSE
        /\ DOMAIN joinOut.metadata.captions = {}
        /\ DOMAIN joinOut.metadata.aiData = {}
        /\ joinOut.metadata.total_analyzed_images = 0
        /\ joinOut.metadata.totalImages = Cardinality(DOMAIN joinOut.images)
        /\ DOMAIN joinOut.images # {}

\* two valid packages with a file of the same name and no metadata
C15_Witness ==
    /\ jpc = "done"
    /\ pc = "none"
    /\ ~MetadataOffered
    /\ Len(validPackages) >= 2
    /\ Cardinality(DOMAIN joinOut.images) = 1

\* C6: split, then join of the packages split created, however they are given to
\* the joiner, succeeds and consolidates exactly the K files split selected.
C6_RoundTrip ==
    (pc = "joined" /\ JoinEnded /\ ~CopyFailed) =>
        /\ jpc = "done"
        /\ joinExit = 0
        /\ DOMAIN joinOut.images = Range(imageFiles)

\* the part of C6 the code does keep: the round trip through the output folder
\* of split as the one input path
C6_RoundTripThroughOutputFolder ==
    (pc = "joined" /\ JoinEnded /\ ~CopyFailed /\ ~joinInputs[1].own.hasImages) =>
        /\ jpc = "done"
        /\ joinExit = 0
        /\ DOMAIN joinOut.images = Range(imageFiles)
        /\ \A n \in DOMAIN joinOut.images : joinOut.images[n] = SourceBytes

\* C21: a join run that fails leaves the output location as it was before the
\* run; for a run started without an output directory, none exists afterwards.
C21_FailureLeavesOutputUntouched ==
    (jpc = "failed" /\ pc = "none") => joinOut = NoOutput

\* what holds: a run that fails before createConsolidatedPackage writes nothing
C21_EarlyFailureWritesNothing ==
    (jpc = "failed" /\ pc = "none" /\ ~CopyFailed) => joinOut = NoOutput

\* the least index of a non-empty set of indices
Earliest(S) == CHOOSE i \in S : \A j \in S : i <= j

\* the valid packages, in iteration order, whose images folder has a file named n
PackagesWith(n) ==
    {k \in 1..Len(validPackages) : n \in DOMAIN ContentAt(validPackages[k]).images}

\* the consolidated package has been written and the temp dir is still there
Consolidated == jpc = "cleanup" /\ validPackages # <<>> /\ ~jthrown

C26_TotalImagesIsContentCount ==
    (jpc = "done" /\ pc = "none") =>
        /\ joinOut.hasMetadata
        /\ joinOut.metadata.totalImages = Cardinality(DOMAIN joinOut.images)

\* what holds: the count is the content count when no metadata document is found
C26_ContentCountWithoutMetadata ==
    (jpc = "done" /\ pc = "none" /\ ~MetadataOffered) =>
        joinOut.metadata.totalImages = Cardinality(DOMAIN joinOut.images)

\* validatePackages has returned
Validated == jpc \in {"collect", "metadata", "create", "cleanup", "done", "failed"}

\* the archives extracted without error
ReadableArchives == {k \in 1..Len(archiveFiles) : ~ArchiveAt(archiveFiles[k]).corrupt}

\* C28: whatever the number of archive inputs, no package directory is twice in
\* the list of packages join validates and merges.
C28_PackagesListedOnce ==
    (Validated /\ pc = "none") =>
        \A i, j \in 1..Len(validPackages) : i # j => validPackages[i] # validPackages[j]

\* what holds: no directory is listed twice when at most one archive is extracted
C28_ListedOnceWithOneArchive ==
    (Validated /\ pc = "none" /\ Cardinality(ReadableArchives) <= 1) =>
        \A i, j \in 1..Len(validPackages) : i # j => validPackages[i] # validPackages[j]

----------------------------------------------------------------------------
(* Properties of mergeMetadata of the image joiner *)

HasKey(entries, k) == \E i \in 1..Len(entries) : entries[i].k = k

EntryValue(entries, k) ==
    LET i == CHOOSE j \in 1..Len(entries) : entries[j].k = k IN entries[i].v

\* the parsed documents whose captions, or whose aiData, have key k
CaptionDocs(k) ==
    {i \in 1..Len(metadataFiles) :
        metadataFiles[i].parses /\ HasKey(metadataFiles[i].captions, k)}
AiDataDocs(k) ==
    {i \in 1..Len(metadataFiles) :
        metadataFiles[i].parses /\ HasKey(metadataFiles[i].aiData, k)}

\* C4: a key that occurs in the captions or in the aiData of several parsed
\* documents is merged to the value of the earliest of them, whatever that value is.
C4_MetadataFirstSurvives ==
    (mpc = "done" /\ ~prevMerged.done) =>
        \A k \in {KeyA, KeyB} :
            /\ Cardinality(CaptionDocs(k)) >= 2 =>
                  /\ k \in DOMAIN merged.captions
                  /\ merged.captions[k] =
                        EntryValue(metadataFiles[Earliest(CaptionDocs(k))].captions, k)
            /\ Cardinality(AiDataDocs(k)) >= 2 =>
                  /\ k \in DOMAIN merged.aiData
                  /\ merged.aiData[k] =
                        EntryValue(metadataFiles[Earliest(AiDataDocs(k))].aiData, k)

\* the aiData loop gets to the entry of key k: no entry before it is null
ReachedInLoop(entries, k) ==
    \A i, j \in 1..Len(entries) : (entries[j].k = k /\ i < j) => ~entries[i].v.null

\* what the code does keep: the earliest value that is truthy survives, among
\* the entries the loops reach
C4_FirstTruthySurvives ==
    mpc = "done" =>
        \A k \in {KeyA, KeyB} :
            /\ LET T == {i \in CaptionDocs(k) :
                            Truthy(EntryValue(metadataFiles[i].captions, k))}
               IN  T # {} =>
                      merged.captions[k] =
                          EntryValue(metadataFiles[Earliest(T)].captions, k)
            /\ LET T == {i \in AiDataDocs(k) :
                            /\ ~EntryValue(metadataFiles[i].aiData, k).null
                            /\ ReachedInLoop(metadataFiles[i].aiData, k)}
               IN  T # {} =>
                      merged.aiData[k] =
                          EntryValue(metadataFiles[Earliest(T)].aiData, k)

\* C16: merging the documents followed by one of them again gives the same
\* total_analyzed_images and the same value for every caption and aiData key.
C16_MergeIdempotent ==
    (mpc = "done" /\ prevMerged.done) =>
        /\ merged.total_analyzed_images = prevMerged.merged.total_analyzed_images
        /\ merged.captions = prevMerged.merged.captions
        /\ merged.aiData = prevMerged.merged.aiData

\* what the code does keep: the keys, and every value that was truthy
C16_TruthyValuesKept ==
    (mpc = "done" /\ prevMerged.done) =>
        /\ merged.total_analyzed_images = prevMerged.merged.total_analyzed_images
        /\ DOMAIN merged.captions = DOMAIN prevMerged.merged.captions
        /\ DOMAIN merged.aiData = DOMAIN prevMerged.merged.aiData
        /\ merged.aiData = prevMerged.merged.aiData
        /\ \A k \in DOMAIN merged.captions :
              Truthy(prevMerged.merged.captions[k]) =>
                  merged.captions[k] = prevMerged.merged.captions[k]

\* the model identifiers of the records of aiData entries, in entry order
RECURSIVE ModelsOf(_)
ModelsOf(entries) ==
    IF entries = <<>> THEN <<>>
    ELSE (IF ~Head(entries).v.null /\ Head(entries).v.modelUsed # ""
          THEN <<Head(entries).v.modelUsed>> ELSE <<>>) \o ModelsOf(Tail(entries))

\* the model identifiers the records of the parsed documents reference, in
\* document order
RECURSIVE ModelsReferenced(_)
ModelsReferenced(files) ==
    IF files = <<>> THEN <<>>
    ELSE (IF Head(files).parses THEN ModelsOf(Head(files).aiData) ELSE <<>>)
         \o ModelsReferenced(Tail(files))

\* C23: models_used lists the model identifiers referenced by the records of the
\* parsed documents, each once, in order of first occurrence, and
\* total_analyzed_images is the number of keys of the merged aiData.
C23_ModelsUsedInOrder ==
    mpc = "done" =>
        /\ merged.models_used = Dedup(ModelsReferenced(metadataFiles))
        /\ merged.total_analyzed_images = Cardinality(DOMAIN merged.aiData)

\* what holds: the same, for documents whose aiData has no null record
C23_ModelsUsedWithoutNull ==
    (mpc = "done" /\ \A i \in 1..Len(metadataFiles) :
                        \A j \in 1..Len(metadataFiles[i].aiData) :
                            ~metadataFiles[i].aiData[j].v.null) =>
        /\ merged.models_used = Dedup(ModelsReferenced(metadataFiles))
        /\ merged.total_analyzed_images = Cardinality(DOMAIN merged.aiData)

\* what holds with any record: the count is the number of merged aiData keys
C23_AnalyzedCount ==
    mpc = "done" => merged.total_analyzed_images = Cardinality(DOMAIN merged.aiData)

\* the documents of a list that parse, in order
RECURSIVE ParsedOnly(_)
ParsedOnly(files) ==
    IF files = <<>> THEN <<>>
    ELSE (IF Head(files).parses THEN <<Head(files)>> ELSE <<>>) \o ParsedOnly(Tail(files))

\* C24: a metadata file that is not valid JSON is skipped and the run goes on: the
\* merged captions, records, models and counts are those of merging the other
\* files alone.
C24_BadJsonSkipped ==
    mpc = "done" => merged = MergeMetadataFiles(ParsedOnly(metadataFiles))

\* a file that does not parse is followed by one with captions, which are merged
C24_Witness ==
    /\ mpc = "done"
    /\ \E i, j \in 1..Len(metadataFiles) :
          /\ i < j
          /\ ~metadataFiles[i].parses
          /\ metadataFiles[j].parses
          /\ metadataFiles[j].hasCaptions
    /\ DOMAIN merged.captions # {}

\* the documents of a list that parse and have the top-level key aiData
RECURSIVE WithAnalysisKey(_)
WithAnalysisKey(files) ==
    IF files = <<>> THEN <<>>
    ELSE (IF Head(files).parses /\ Head(files).hasAiData THEN <<Head(files)>> ELSE <<>>)
         \o WithAnalysisKey(Tail(files))

\* C25: a metadata file that parses but has no aiData key is skipped: the merged
\* document is that of merging the files that have the key.
C25_MissingKeySkipped ==
    mpc = "done" => merged = MergeMetadataFiles(WithAnalysisKey(metadataFiles))

\* what holds: such a file adds nothing to aiData, models_used and
\* total_analyzed_images; its captions and its totalImages are merged
C25_MissingKeyAddsNoRecords ==
    mpc = "done" =>
        LET expected == MergeMetadataFiles(WithAnalysisKey(metadataFiles))
        IN  /\ merged.aiData = expected.aiData
            /\ merged.models_used = expected.models_used
            /\ merged.total_analyzed_images = expected.total_analyzed_images

----------------------------------------------------------------------------
(* Properties of the document joiner *)

\* the metadata files of the input folder that load and have a record for k
FilesWith(k) ==
    {RecordOf(d, p) : d \in DOMAIN inputFolder, p \in PatternIds} \cap
    {f \in [dir : DOMAIN inputFolder, pattern : PatternIds] :
        /\ f.pattern \in DOMAIN inputFolder[f.dir]
        /\ Loads(inputFolder[f.dir][f.pattern])
        /\ k \in DOMAIN inputFolder[f.dir][f.pattern].metadata}

\* file f is processed before file g: packages in lexical order, the files of a
\* package in pattern order
Before(f, g) ==
    \/ LexLess(f.dir, g.dir)
    \/ f.dir = g.dir /\ f.pattern < g.pattern

\* C5: a document name in the metadata of several loaded files is merged to the
\* record of the earliest-processed of them.
C5_DocMetadataFirstSurvives ==
    dpc = "done" =>
        \A k \in {DocX, DocY} :
            Cardinality(FilesWith(k)) >= 2 =>
                /\ k \in DOMAIN mergedData
                /\ mergedData[k] \in FilesWith(k)
                /\ \A g \in FilesWith(k) : g = mergedData[k] \/ Before(mergedData[k], g)

\* what the code does: the files are loaded in the order of C5, and the record of
\* the file processed last survives
C5_ProcessingOrder ==
    \A i, j \in 1..Len(allMetadata) :
        i < j => Before(allMetadata[i][DocX], allMetadata[j][DocX])

C5_LastSurvives ==
    dpc = "done" =>
        \A k \in {DocX, DocY} :
            FilesWith(k) # {} =>
                /\ mergedData[k] \in FilesWith(k)
                /\ \A g \in FilesWith(k) : g = mergedData[k] \/ Before(g, mergedData[k])

\* the metadata files of the package directories that load
LoadingFiles ==
    {f \in [dir : DOMAIN inputFolder, pattern : PatternIds] :
        /\ IsPackage(f.dir)
        /\ f.pattern \in DOMAIN inputFolder[f.dir]
        /\ Loads(inputFolder[f.dir][f.pattern])}

\* C24 for the document joiner: the run succeeds exactly when some metadata file
\* of a package directory loads, whatever files beside it are not JSON, and every
\* merged record is the record of a file that loads
C24_DocBadJsonSkipped ==
    (dpc \in {"done", "failed"}) =>
        /\ dpc = "done" <=> LoadingFiles # {}
        /\ dpc = "done" =>
              /\ docExit = 0
              /\ \A k \in DOMAIN mergedData :
                    \E f \in LoadingFiles :
                       /\ k \in DOMAIN inputFolder[f.dir][f.pattern].metadata
                       /\ inputFolder[f.dir][f.pattern].metadata[k] = mergedData[k]
              /\ \A f \in LoadingFiles :
                    DOMAIN inputFolder[f.dir][f.pattern].metadata \subseteq DOMAIN mergedData

\* the CLI action has ended after a successful join
CliEnded == dpc = "cleaned"

\* the directories the run did not find in the input folder but extracted
ExtractedByRun == Range(docExtracted) \ preExisting

\* C30: with --clean-extracted only folders this run extracted are removed, every
\* directory that was in the input folder before the run is still there; without
\* the flag nothing is removed.
C30_OnlyExtractedRemoved ==
    CliEnded =>
        /\ preExisting \subseteq DOMAIN inputFolder
        /\ ~cleanExtracted => DOMAIN inputFolder = preExisting \cup Range(docExtracted)

\* what holds: without the flag nothing is removed, and with it the directories
\* named docu-package-* are removed, extracted by this run or not, and no other
C30_RemovedByName ==
    CliEnded =>
        LET before == preExisting \cup Range(docExtracted)
        IN  DOMAIN inputFolder =
               IF cleanExtracted
               THEN {d \in before : ~StartsWith(d, DocuPackagePrefix)}
               ELSE before

\* a folder this run extracted is still there after the cleanup
C30_ExtractedFolderLeft ==
    CliEnded /\ cleanExtracted /\ ExtractedByRun \cap DOMAIN inputFolder # {}

----------------------------------------------------------------------------
(* Specifications *)

SplitNext ==
    \/ CliValidate
    \/ GetImageFiles
    \/ GetDocumentFiles
    \/ SplitChunks
    \/ CreateWorkPackage
    \/ SplitReturn
    \/ Rerun

Init == SplitInit /\ JoinIdle /\ MergeIdle /\ DocIdle /\ CreateIdle /\ CleanIdle

Next == SplitNext \/ RoundTripJoin \/ JoinMain \/ JoinCore

\* split, and join of what split created
Spec == Init /\ [][Next]_vars

JoinInit == SplitIdle /\ JoinStart /\ MergeIdle /\ DocIdle /\ CreateIdle /\ CleanIdle

\* the image joiner on arbitrary input paths
SpecJoin == JoinInit /\ [][JoinNext]_vars

MergeInit ==
    /\ SplitIdle
    /\ JoinIdle
    /\ DocIdle
    /\ CreateIdle
    /\ CleanIdle
    /\ metadataFiles \in UNION {DocumentSeqs(n) : n \in 1..MaxDocs}
    /\ mpc = "merge"
    /\ mi = 1
    /\ merged = NoMerged
    /\ imageCount = 0
    /\ modelsUsed = <<>>
    /\ prevMerged = NoEarlierMerge

\* mergeMetadata of the image joiner on arbitrary metadata documents
SpecMerge == MergeInit /\ [][MergeNext]_vars

DocInit ==
    /\ SplitIdle
    /\ JoinIdle
    /\ MergeIdle
    /\ CreateIdle
    /\ CleanIdle
    /\ inputFolder \in InputFolders(MaxPackages)
    /\ dpc = "find"
    /\ packageDirs = <<>>
    /\ dpi = 1
    /\ allMetadata = <<>>
    /\ mergedData = <<>>
    /\ docExit = 0

\* the document joiner on arbitrary input folders
SpecDoc == DocInit /\ [][DocNext]_vars

\* the state of split() when its package loop starts
CreateInit ==
    /\ tool \in {"image", "docu"}
    /\ argv = <<>>
    /\ sourceExists = TRUE
    /\ sourceDir \in {S \in SourceDirs(tool) : (IF tool = "image" THEN ImageMatches(S)
                                                 ELSE DocumentMatches(S)) # {}}
    /\ pc = "create"
    /\ numSplits \in {Num(n) : n \in 1..MaxPackages}
    /\ imageFiles =
         (IF tool = "image"
          THEN GetImageFilesResult(PatternMatches(sourceDir),
                                   CHOOSE o \in Orders(ImageMatches(sourceDir)) : TRUE)
          ELSE GetDocumentFilesResult(DocumentMatches(sourceDir),
                                      CHOOSE o \in Orders(DocumentMatches(sourceDir)) : TRUE))
    /\ chunks = SplitImages(imageFiles, numSplits)
    /\ warned = JsNotEqual(Num(Len(chunks)), numSplits)
    /\ outputExists = TRUE
    /\ outDir = <<>>
    /\ createdPackages = <<>>
    /\ exitCode = 0
    /\ prevRun = NoRun
    /\ JoinIdle
    /\ MergeIdle
    /\ DocIdle
    /\ CleanIdle
    /\ projectRoot \in [docs : BOOLEAN]
    /\ step = "mkdir"
    /\ copyIndex = 1
    /\ packageTree = <<>>

\* the package loop of split(), one write at a time
SpecCreate == CreateInit /\ [][CreateNext]_vars

\* the document joiner started on an input folder with directories and .zip files
CliInit ==
    /\ SplitIdle
    /\ JoinIdle
    /\ MergeIdle
    /\ CreateIdle
    /\ inputFolder \in InputFolders(MaxPreExisting) \cup {<<>>}
    /\ dpc = "extract"
    /\ packageDirs = <<>>
    /\ dpi = 1
    /\ allMetadata = <<>>
    /\ mergedData = <<>>
    /\ docExit = 0
    /\ docArchives \in SUBSET DirectoryNames
    /\ cleanExtracted \in BOOLEAN
    /\ docExtracted = <<>>
    /\ preExisting = DOMAIN inputFolder

\* the CLI action of the document joiner
SpecCli == CliInit /\ [][CliNext]_vars

====
